---- MODULE Spec2Model ----
(***************************************************************************)
(* Model of the two news-relay bots of the repository.                     *)
(*                                                                         *)
(*   prog = "relay"  src/bot.py   NewsRelay: scrapes t.me/s/<channel>,     *)
(*                   dedupes on the posted_messages table (sqlite), and    *)
(*                   forwards each unseen message to the publisher channel.*)
(*   prog = "bot"    src/main.py  NewsBot: polls RSS feeds, dedupes on     *)
(*                   posted_links / content_checks, persists them to       *)
(*                   news_bot_state.json.                                  *)
(*                                                                         *)
(* A process runs one of the two programs; Init chooses which.  Each       *)
(* asyncio task is a record with a program counter: one action per         *)
(* stretch of code between two suspension points (await).                  *)
(*                                                                         *)
(* Functions and data structures checked on their own inputs:              *)
(*   prog = "translate"  NewsBot.translate_text and its cache (main.py)    *)
(*   prog = "render"     html_from_bs / render_node (bot.py)               *)
(*   prog = "extract"    TelegramChannelParser.fetch_messages (bot.py) and *)
(*                       the entry loop of NewsBot (main.py)               *)
(*   prog = "store"      the identity keys of the two programs             *)
(*   prog = "item"       should_research, get_best_image and the bot call  *)
(*                       of send_news_item (main.py)                       *)
(*   prog = "status"     stats["errors"] and status_command (bot.py)       *)
(*   prog = "load"       NewsBot.load_state on the files it can find       *)
(***************************************************************************)
EXTENDS Integers, Sequences, FiniteSets, TLC

VARIABLES
    prog,            \* "relay" (bot.py) or "bot" (main.py)
    tasks,           \* the asyncio tasks created by start()/run(): id -> [pc, src, items]
    update_task,     \* self.update_task: 0 (None) or the id of the runner task
    lock,            \* NewsRelay.lock: 0 (free) or the id of the task holding it
    stats,           \* NewsRelay.stats
    db,              \* rows of table posted_messages: <<message_id, channel_username>>
    running,         \* NewsBot.running
    app_running,     \* telegram Application.running of NewsBot.app
    posted_links,    \* NewsBot.posted_links
    content_checks,  \* NewsBot.content_checks
    disk,            \* contents of STATE_FILE (news_bot_state.json)
    sentOk,          \* history: items with at least one successful sink send
    lastPub,         \* history: the item last sent successfully by this process,
                     \* while the cycle of that send or the next one is running
    lastFail,        \* history: the item whose publish call failed last, likewise
    translation_cache, \* NewsBot.translation_cache
    call,            \* the translate_text call in progress
    prev,            \* history: the last translate_text call that returned
    node,            \* the element handed to html_from_bs
    html,            \* the string html_from_bs returned, as a sequence of tokens
    parse            \* the input handed to the function checked on its own (the
                     \* page of the extractor, an entry, a list) and what came out

vars == <<prog, tasks, update_task, lock, stats, db, running, app_running,
          posted_links, content_checks, disk, sentOk, lastPub, lastFail,
          translation_cache, call, prev, node, html, parse>>

relayVars == <<lock, stats, db>>
botVars   == <<running, app_running, posted_links, content_checks, disk>>
histVars  == <<sentOk, lastPub, lastFail>>
pureVars  == <<translation_cache, call, prev, node, html, parse>>

-----------------------------------------------------------------------------
(* Bounds of the model *)

\* asyncio task slots available to start()/run()
MaxTasks == 2
\* bound on the length of stats["errors"] (the list itself is unbounded)
MaxErrors == 2

TaskIds == 1..MaxTasks

-----------------------------------------------------------------------------
(* Sequence helpers *)

Range(s) == {s[i] : i \in 1..Len(s)}

Take(s, n) == SubSeq(s, 1, IF Len(s) < n THEN Len(s) ELSE n)

\* all sequences without repetition over the elements of S
RECURSIVE Perms(_)
Perms(S) ==
    IF S = {} THEN {<<>>}
    ELSE UNION {{<<x>> \o p : p \in Perms(S \ {x})} : x \in S}

Arrangements(S) == UNION {Perms(T) : T \in SUBSET S}

-----------------------------------------------------------------------------
(* bot.py: configuration and page contents *)

\* config["source_channels"], in configured order
source_channels == <<"chA", "chB">>

\* config["fetch_limit"] (FETCH_LIMIT)
fetch_limit == 2

\* The messages that t.me/s/<channel> can show: ParsedMessage records.  text
\* stands for a non-empty text_html / plain_text, media for a media_url.
ParsedMessage(c, id, text, media) ==
    [channel |-> c, message_id |-> id, text |-> text, media |-> media]

Messages ==
    { ParsedMessage("chA", 1, TRUE,  TRUE),
      ParsedMessage("chA", 2, TRUE,  FALSE),
      ParsedMessage("chB", 1, FALSE, TRUE),
      ParsedMessage("chB", 2, FALSE, FALSE) }

MessagesOn(c) == {m \in Messages : m.channel = c}

\* messages.sort(key=lambda item: item.message_id)
RECURSIVE SortById(_)
SortById(S) ==
    IF S = {} THEN <<>>
    ELSE LET m == CHOOSE x \in S : \A y \in S : x.message_id <= y.message_id
         IN  <<m>> \o SortById(S \ {m})

\* the result of fetch_messages for a page showing the messages S
FetchResult(S) == Take(SortById(S), fetch_limit)

\* the primary key of posted_messages
RowOf(m) == <<m.message_id, m.channel>>

-----------------------------------------------------------------------------
(* main.py: configuration and feed contents *)

\* NEWS_SOURCES, in dict order (two of the configured feeds)
NEWS_SOURCES == <<"Habr", "3DNews">>

MAX_HISTORY_SIZE == 1000

\* feed.entries[:3]
EntriesPerCycle == 3

Links == {"L1", "L2", "L3"}

\* hashlib.md5(title + description) of the entry behind each link: L1 and L2
\* carry the same story under two links.
content_hash(link) == IF link = "L3" THEN "H2" ELSE "H1"

Hashes == {content_hash(l) : l \in Links}

LinksOf(source) == IF source = "Habr" THEN {"L1", "L2"} ELSE {"L3"}

\* what feedparser can return for a source: its entries in the feed's order
FeedsOf(source) == Arrangements(LinksOf(source))

\* An identity set: the links (hashes) the model names, plus a count of
\* other, older members that no feed of the model shows any more.
IdSet(named, others) == [named |-> named, others |-> others]

Size(s) == Cardinality(s.named) + s.others

Add(s, x) == IdSet(s.named \cup {x}, s.others)

Discard(s, x) == IdSet(s.named \ {x}, s.others)

\* list(s)[-MAX_HISTORY_SIZE:] of a Python set: the iteration order of a set
\* of strings is arbitrary, so any MAX_HISTORY_SIZE members may be the ones
\* kept.
LastOfList(s) ==
    LET excess == Size(s) - MAX_HISTORY_SIZE
    IN  { IdSet(s.named \ R, s.others - (excess - Cardinality(R))) :
            R \in {Q \in SUBSET s.named :
                     /\ Cardinality(Q) <= excess
                     /\ excess - Cardinality(Q) <= s.others} }

\* faulty variant of Limited: the size limit is left out of save_state
Unlimited(s) == {s}

\* save_state, lines 234-237: the sets after the size limit
Limited(s) == IF Size(s) > MAX_HISTORY_SIZE THEN LastOfList(s) ELSE {s}

\* the contents of STATE_FILE: the snapshot json.dump writes, no file, or a
\* file json.load rejects
Snapshot(pl, cc) == [kind |-> "json", posted_links |-> pl, content_checks |-> cc]

NoFile == [kind |-> "absent", posted_links |-> IdSet({}, 0), content_checks |-> IdSet({}, 0)]

Corrupt == [kind |-> "corrupt", posted_links |-> IdSet({}, 0), content_checks |-> IdSet({}, 0)]

\* the outcome of open(STATE_FILE, 'w') + json.dump: written, open raises
\* (the file is untouched), or the dump raises after open truncated the file
WriteOutcomes == {"ok", "open_failed", "dump_failed"}

Written(old, snap, outcome) ==
    CASE outcome = "ok"          -> snap
      [] outcome = "open_failed" -> old
      [] outcome = "dump_failed" -> Corrupt

\* load_state: the sets restored from the file; they stay as __init__ made
\* them (empty) when the file is absent or json.load raises
Loaded(file) ==
    IF file.kind = "json"
    THEN file
    ELSE Snapshot(IdSet({}, 0), IdSet({}, 0))

\* sizes of the history a deployment may already hold on disk
PriorFill == {0, MAX_HISTORY_SIZE - 1}

-----------------------------------------------------------------------------
(* main.py: texts, translation providers and the translation cache *)

\* Texts are sequences of characters.  The characters of the model: two Latin
\* letters, two Cyrillic letters ("cyr_p", "cyr_r"; upper case "CYR_P",
\* "CYR_R") and a digit.
russian_letters == {"cyr_p", "cyr_r"}

\* str.lower() and str.upper() of one character
lower(c) ==
    CASE c = "H" -> "h" [] c = "I" -> "i"
      [] c = "A" -> "a" [] c = "L" -> "l" [] c = "M" -> "m"
      [] c = "CYR_P" -> "cyr_p" [] c = "CYR_R" -> "cyr_r"
      [] OTHER -> c

upper(c) ==
    CASE c = "h" -> "H" [] c = "i" -> "I"
      [] c = "a" -> "A" [] c = "l" -> "L" [] c = "m" -> "M"
      [] c = "cyr_p" -> "CYR_P" [] c = "cyr_r" -> "CYR_R"
      [] OTHER -> c

cased(c) == lower(c) # upper(c)

\* any(char.lower() in russian_letters for char in text)
is_russian(text) == \E i \in 1..Len(text) : lower(text[i]) \in russian_letters

\* str.isupper(): at least one cased character and no lower-case one
isupper(text) ==
    /\ \E i \in 1..Len(text) : cased(text[i])
    /\ \A i \in 1..Len(text) : cased(text[i]) => text[i] = upper(text[i])

\* str.capitalize()
capitalize(text) == [i \in 1..Len(text) |-> IF i = 1 THEN upper(text[i]) ELSE lower(text[i])]

\* the texts handed to translate_text
Texts == { <<>>, <<"h", "i">>, <<"cyr_p">> }

\* the target_lang arguments
Languages == {"RU", "EN"}

\* the translations a provider can answer with
Replies == { <<"CYR_P", "CYR_R">>, <<"cyr_p", "1">>, <<"h", "i">> }

\* What a provider call ends with: an exception (also a timeout), an HTTP
\* status other than 200, a body whose code / responseStatus is not 200, a
\* body without the data field, or a translation.
Response(kind, data) == [kind |-> kind, data |-> data]

DeepLXResponses ==
    {Response(k, <<>>) : k \in {"error", "bad_status", "bad_code", "no_data"}}
        \cup {Response("data", r) : r \in Replies}

MyMemoryResponses ==
    {Response(k, <<>>) : k \in {"error", "bad_status", "bad_code"}}
        \cup {Response("data", r) : r \in Replies}

\* for attempt in range(2)
DeepLXAttempts == 2

MAX_CACHE_SIZE == 1000

\* hashlib.md5(f"{text}_{target_lang}"), taken to be free of collisions: the
\* hashed string itself
cache_key(text, target_lang) == text \o <<"_", target_lang>>

\* translation_cache: the entries of the keys the model names, plus a count
\* of entries for other texts
EmptyCache == [named |-> [k \in {} |-> <<>>], others |-> 0]

CacheSize(c) == Cardinality(DOMAIN c.named) + c.others

InCache(c, k) == k \in DOMAIN c.named

\* self.translation_cache[cache_key] = translated
Store(c, k, v) ==
    [c EXCEPT !.named = [x \in DOMAIN c.named \cup {k} |-> IF x = k THEN v ELSE c.named[x]]]

\* sizes the cache may have when the checked calls begin
PriorCache == {0, MAX_CACHE_SIZE - 1}

\* result.get('data', text) of a DeepLX body with code 200
DeepLXData(text, response) == IF response.kind = "data" THEN response.data ELSE text

\* translate_with_mymemory: the corrected translation, or text when the call
\* fails
translate_with_mymemory(text, response) ==
    IF text = <<>> THEN text
    ELSE IF response.kind = "data"
         THEN IF isupper(response.data) THEN capitalize(response.data) ELSE response.data
         ELSE text

\* the translate_text call in progress: pc, the arguments, the attempt of the
\* DeepLX loop, the result; and, as history, the number of provider calls
\* made, the number of failed DeepLX attempts and what translate_with_mymemory
\* returned
NoCall ==
    [pc |-> "idle", text |-> <<>>, target_lang |-> "RU", attempt |-> 0, result |-> <<>>,
     via |-> "none", calls |-> 0, fails |-> 0, mm_called |-> FALSE, mm |-> <<>>]

NoPrev == [text |-> <<>>, target_lang |-> "RU", result |-> <<>>, via |-> "none"]

\* translate_text returns result; via names the return statement
Returns(c, result, via) == [c EXCEPT !.pc = "done", !.result = result, !.via = via]

-----------------------------------------------------------------------------
(* bot.py: HTML conversion helpers *)

ALLOWED_TAGS ==
    {"b", "strong", "i", "em", "u", "ins", "s", "strike", "del", "code", "pre",
     "a", "blockquote", "span", "tg-emoji"}

\* TAG_MAP.get(name, name)
TAG_MAP(name) ==
    CASE name = "strong" -> "b"
      [] name = "em"     -> "i"
      [] name = "ins"    -> "u"
      [] name = "strike" -> "s"
      [] name = "del"    -> "s"
      [] OTHER           -> name

\* node.name.lower() for the tag names of the model
name_lower(name) == IF name = "B" THEN "b" ELSE name

\* The nodes of a parsed page (bs4): a NavigableString carries a text, a Tag
\* a name, attributes and children.  A text is a sequence of characters; the
\* characters of the model are a letter, the five characters html.escape
\* knows, and the no-break space ("nbsp", \xa0).
NoHref == [present |-> FALSE, value |-> <<>>]

Href(value) == [present |-> TRUE, value |-> value]

NavigableString(text) ==
    [type |-> "NavigableString", name |-> "", href |-> NoHref, text |-> text, children |-> <<>>]

Tag(name, href, children) ==
    [type |-> "Tag", name |-> name, href |-> href, text |-> <<>>, children |-> children]

\* node.get("href", "")
GetHref(n) == IF n.href.present THEN n.href.value ELSE <<>>

\* The returned string, as a sequence of tokens: a text token is one character
\* or one entity; the markup render_node writes is <name> (open), </name>
\* (close), <a href=" (a_open) and "> (a_mid).
Token(kind, v) == [kind |-> kind, v |-> v]

\* html.escape of one character
EscapeChar(c, quote) ==
    CASE c = "&"            -> "&amp;"
      [] c = "<"            -> "&lt;"
      [] c = ">"            -> "&gt;"
      [] quote /\ c = "\""  -> "&quot;"
      [] quote /\ c = "'"   -> "&#x27;"
      [] OTHER              -> c

\* faulty variant of escape_html: the text is copied as it is
escape_nothing(text, quote) == [i \in 1..Len(text) |-> Token("text", text[i])]

\* html.escape(s, quote)
escape_html(text, quote) ==
    [i \in 1..Len(text) |-> Token("text", EscapeChar(text[i], quote))]

escape_attribute(value) == escape_html(value, TRUE)

RECURSIVE render_node(_)
RECURSIVE RenderChildren(_)

\* "".join(render_node(child) for child in node.children)
RenderChildren(children) ==
    IF children = <<>> THEN <<>>
    ELSE render_node(Head(children)) \o RenderChildren(Tail(children))

render_node(n) ==
    IF n.type = "NavigableString" THEN escape_html(n.text, TRUE)
    ELSE IF n.type = "Tag" THEN
        LET name == name_lower(n.name)
            mapped_name == TAG_MAP(name)
            inner == RenderChildren(n.children)
        IN  IF name = "br" THEN <<Token("text", "\n")>>
            ELSE IF name \notin ALLOWED_TAGS THEN inner
            ELSE IF mapped_name = "span" \/ mapped_name = "tg-emoji" THEN inner
            ELSE IF mapped_name = "a" THEN
                IF GetHref(n) = <<>> THEN inner
                ELSE <<Token("a_open", "a")>> \o escape_attribute(GetHref(n))
                        \o <<Token("a_mid", "a")>> \o inner \o <<Token("close", "a")>>
            ELSE <<Token("open", mapped_name)>> \o inner \o <<Token("close", mapped_name)>>
    ELSE <<>>

\* html.replace("\xa0", " ")
ReplaceNbsp(tokens) ==
    [i \in 1..Len(tokens) |->
        IF tokens[i] = Token("text", "nbsp") THEN Token("text", " ") ELSE tokens[i]]

html_from_bs(n) == ReplaceNbsp(RenderChildren(n.children))

\* The elements of the model.
MaxKids == 2

TagNames == ALLOWED_TAGS \cup {"br", "script", "div", "B"}

LeafTexts == { <<"x">>, <<"<", "x", ">">>, <<"&">>, <<"\"", "'">>, <<"nbsp">> }

Leaves == {NavigableString(t) : t \in LeafTexts}

HrefsOf(name) ==
    IF name = "a"
    THEN {NoHref, Href(<<>>), Href(<<"x">>), Href(<<"\"", "&", "<">>)}
    ELSE {NoHref}

\* all sequences of at most n elements of S
RECURSIVE SeqsUpTo(_, _)
SeqsUpTo(S, n) ==
    IF n = 0 THEN {<<>>}
    ELSE LET shorter == SeqsUpTo(S, n - 1)
         IN  shorter \cup {<<x>> \o q : x \in S, q \in {r \in shorter : Len(r) = n - 1}}

TagsOver(kids) ==
    UNION {{Tag(name, h, k) : h \in HrefsOf(name), k \in kids} : name \in TagNames}

\* tags over texts, and tags wrapping a tag over at most one text
Level1 == TagsOver(SeqsUpTo(Leaves, MaxKids))

Level2 == TagsOver({<<k>> : k \in {t \in Level1 : Len(t.children) <= 1}})

\* the div.tgme_widget_message_text blocks handed to html_from_bs
TextBlocks ==
    {Tag("div", NoHref, k) : k \in SeqsUpTo(Leaves, MaxKids)}
        \cup {Tag("div", NoHref, <<k>>) : k \in Level1 \cup Level2}
        \cup {Tag("div", NoHref, <<l, k>>) : l \in Leaves, k \in {t \in Level1 : Len(t.children) = 1}}

NoNode == Tag("div", NoHref, <<>>)

NoHtml == [returned |-> FALSE, value |-> <<>>]

-----------------------------------------------------------------------------
(* Tasks *)

NoTask == [pc |-> "none", src |-> 0, items |-> <<>>]

Task(pc, src, items) == [pc |-> pc, src |-> src, items |-> items]

FreeSlots == {t \in TaskIds : tasks[t].pc = "none"}

NewSlot == CHOOSE t \in FreeSlots : \A u \in FreeSlots : t <= u

\* pcs at which a task is inside a cycle (for NewsRelay: holds the lock)
CyclePcs == {"fetch", "check", "photo", "text", "mark", "prepare", "media", "send", "pace"}

\* pcs at which the next step of the task is a call of the sink
SendPcs == {"photo", "text", "media", "send"}

\* pcs at which the next step is the send of an image (send_photo,
\* send_media_group), and of a text alone (send_message)
ImagePcs == {"photo", "media"}

TextPcs == {"text", "send"}

InCycle(t) == tasks[t].pc \in CyclePcs

Current(t) == Head(tasks[t].items)

\* lastPub: item is {} or {x}; age is 0 while the cycle of the send runs and
\* 1 during the cycle after it; by names the sink call that succeeded
NoPub == [item |-> {}, age |-> 0, by |-> "none"]

\* lastFail: the same for the item whose publish call returned False
NoFail == [item |-> {}, age |-> 0]

\* the items that are the same story as x for the dedupe check: x itself
\* and, in NewsBot, the links whose title and description hash like x's
SameStory(x) ==
    IF prog = "relay" THEN {x} ELSE {y \in Links : content_hash(y) = content_hash(x)}

\* history update for a successful sink send of item x; a failure recorded
\* for the same story is over
Sent(x, by) ==
    /\ sentOk' = sentOk \cup {x}
    /\ lastPub' = [item |-> {x}, age |-> 0, by |-> by]
    /\ lastFail' = IF lastFail.item \cap SameStory(x) # {} THEN NoFail ELSE lastFail

\* history update when the publish call for item x gives up
Failed(x) ==
    /\ lastFail' = [item |-> {x}, age |-> 0]
    /\ UNCHANGED <<sentOk, lastPub>>

\* history update at the start of a cycle
NewCycle ==
    /\ lastPub' = IF lastPub.item # {} /\ lastPub.age = 0
                  THEN [lastPub EXCEPT !.age = 1]
                  ELSE NoPub
    /\ lastFail' = IF lastFail.item # {} /\ lastFail.age = 0
                   THEN [lastFail EXCEPT !.age = 1]
                   ELSE NoFail
    /\ UNCHANGED sentOk

-----------------------------------------------------------------------------
(* bot.py: TelegramChannelParser.fetch_messages; main.py: feed entries *)

\* the longest page of the model, in div.tgme_widget_message elements
MaxPage == 3

\* element.get("data-post"): None, or the attribute's value as a sequence of
\* characters
NoDataPost == [present |-> FALSE, value |-> <<>>]

DataPost(value) == [present |-> TRUE, value |-> value]

\* the data-post values of the model: "", "c/1", "c/2", "c/3", "c/x", "c/"
\* and "12"
DataPosts ==
    { <<>>, <<"c", "/", "1">>, <<"c", "/", "2">>, <<"c", "/", "3">>,
      <<"c", "/", "x">>, <<"c", "/">>, <<"1", "2">> }

\* a div.tgme_widget_message element, as far as _extract_message_id reads it
Elements ==
    {[data_post |-> NoDataPost]} \cup {[data_post |-> DataPost(v)] : v \in DataPosts}

\* the pages of at most n elements; Telegram shows a message once per page
RECURSIVE PagesUpTo(_)
PagesUpTo(n) ==
    IF n = 0 THEN {<<>>}
    ELSE LET P == PagesUpTo(n - 1)
         IN  P \cup UNION {{Append(p, e) : e \in Elements \ Range(p)} :
                              p \in {q \in P : Len(q) = n - 1}}

Pages == PagesUpTo(MaxPage)

\* data_post.split("/")[-1]
LastSegment(s) ==
    LET slashes == {i \in 1..Len(s) : s[i] = "/"}
    IN  IF slashes = {} THEN s
        ELSE SubSeq(s, (CHOOSE i \in slashes : \A j \in slashes : j <= i) + 1, Len(s))

DigitChars == <<"0", "1", "2", "3", "4", "5", "6", "7", "8", "9">>

DigitValue(c) == (CHOOSE i \in 1..Len(DigitChars) : DigitChars[i] = c) - 1

\* int(s) for a non-empty string of digits
RECURSIVE IntOf(_)
IntOf(s) ==
    IF s = <<>> THEN 0
    ELSE 10 * IntOf(SubSeq(s, 1, Len(s) - 1)) + DigitValue(s[Len(s)])

\* Optional[int]: None, or a message id
NoId == [some |-> FALSE, id |-> 0]

Id(n) == [some |-> TRUE, id |-> n]

\* faulty variant of extract_message_id: an element without a numeric id gets
\* the id 0 and is kept
extract_message_id_or_zero(element) ==
    IF ~element.data_post.present \/ element.data_post.value = <<>>
    THEN Id(0)
    ELSE LET segment == LastSegment(element.data_post.value)
         IN  IF segment # <<>> /\ \A i \in 1..Len(segment) : segment[i] \in Range(DigitChars)
             THEN Id(IntOf(segment))
             ELSE Id(0)

\* _extract_message_id, lines 199-207: None for a missing or empty data-post
\* and when int() raises ValueError on the last segment
extract_message_id(element) ==
    IF ~element.data_post.present \/ element.data_post.value = <<>>
    THEN NoId
    ELSE LET segment == LastSegment(element.data_post.value)
         IN  IF segment # <<>> /\ \A i \in 1..Len(segment) : segment[i] \in Range(DigitChars)
             THEN Id(IntOf(segment))
             ELSE NoId

\* the for loop of lines 174-194: an element without id is skipped, the
\* others are appended in page order (their text and media are not looked at
\* here)
RECURSIVE ParseElements(_)
ParseElements(container) ==
    IF container = <<>> THEN <<>>
    ELSE LET message_id == extract_message_id(Head(container))
         IN  IF ~message_id.some
             THEN ParseElements(Tail(container))
             ELSE <<ParsedMessage("chA", message_id.id, TRUE, FALSE)>>
                      \o ParseElements(Tail(container))

\* messages.sort(key=lambda item: item.message_id): a stable sort
RECURSIVE sort(_)
sort(messages) ==
    IF messages = <<>> THEN <<>>
    ELSE LET rest == sort(Tail(messages))
             m == Head(messages)
             k == Cardinality({i \in 1..Len(rest) : rest[i].message_id < m.message_id})
         IN  SubSeq(rest, 1, k) \o <<m>> \o SubSeq(rest, k + 1, Len(rest))

\* faulty variant of fetch_messages: the slice keeps the end of the list
fetch_messages_newest(container) ==
    LET messages == sort(ParseElements(container))
    IN  SubSeq(messages, IF Len(messages) > fetch_limit
                         THEN Len(messages) - fetch_limit + 1 ELSE 1, Len(messages))

\* fetch_messages, lines 171-197, for a page that was loaded
fetch_messages(container) == Take(sort(ParseElements(container)), fetch_limit)

\* the entries a feed can show, and feed.entries in the feed's order
Entries == {"E1", "E2", "E3", "E4"}

Feeds == Arrangements(Entries)

\* parse: what is parsed ("page", "feed"), the input, the output so far, and
\* whether the extractor (the entry loop) is through
NoParse == [kind |-> "none", input |-> <<>>, out |-> <<>>, done |-> FALSE]

-----------------------------------------------------------------------------
(* Initial state: after NewsRelay.__init__ / NewsBot.__init__ *)

NoStats == [last_run |-> FALSE, last_messages |-> 0, total_messages |-> 0, errors |-> 0]

InitCommon ==
    /\ tasks = [t \in TaskIds |-> NoTask]
    /\ update_task = 0
    /\ lock = 0
    /\ stats = NoStats
    /\ running = FALSE
    /\ app_running = FALSE
    /\ sentOk = {}
    /\ lastPub = NoPub
    /\ lastFail = NoFail
    /\ db = {}

\* nothing on disk, nothing published
InitNoHistory ==
    /\ disk = NoFile
    /\ posted_links = IdSet({}, 0)
    /\ content_checks = IdSet({}, 0)

InitNoParse == parse = NoParse

\* no translate_text call, no element to render
InitNoCall ==
    /\ translation_cache = EmptyCache
    /\ call = NoCall
    /\ prev = NoPrev

InitNoNode ==
    /\ node = NoNode
    /\ html = NoHtml

InitRelay ==
    /\ prog = "relay"
    /\ InitNoHistory

InitBot ==
    /\ prog = "bot"
    /\ \E n \in PriorFill :
          disk = IF n = 0 THEN NoFile
                 ELSE Snapshot(IdSet({}, n), IdSet({}, n))
    /\ posted_links = Loaded(disk).posted_links
    /\ content_checks = Loaded(disk).content_checks

Init == InitCommon /\ InitNoCall /\ InitNoNode /\ InitNoParse /\ (InitRelay \/ InitBot)

\* NewsBot.__init__ for the translate_text calls: an empty translation_cache,
\* or one that earlier cycles have filled
InitTranslate ==
    /\ prog = "translate"
    /\ InitCommon /\ InitNoHistory /\ InitNoNode /\ InitNoParse
    /\ \E n \in PriorCache : translation_cache = [EmptyCache EXCEPT !.others = n]
    /\ call = NoCall
    /\ prev = NoPrev

\* _extract_text: a text block of the page is handed to html_from_bs
InitRender ==
    /\ prog = "render"
    /\ InitCommon /\ InitNoHistory /\ InitNoCall /\ InitNoParse
    /\ node \in TextBlocks
    /\ html = NoHtml

-----------------------------------------------------------------------------
(* bot.py: NewsRelay *)

\* start(): a second request while update_task is set returns at once
start ==
    /\ prog = "relay"
    /\ IF update_task # 0
       THEN UNCHANGED <<tasks, update_task>>
       ELSE /\ FreeSlots # {}
            /\ tasks' = [tasks EXCEPT ![NewSlot] = Task("runner", 0, <<>>)]
            /\ update_task' = NewSlot
    /\ UNCHANGED <<prog, pureVars, relayVars, botVars, histVars>>

\* faulty variant of stop: the task is forgotten without being cancelled
stopWithoutCancel ==
    /\ prog = "relay"
    /\ update_task' = 0
    /\ UNCHANGED <<prog, pureVars, tasks, relayVars, botVars, histVars>>

\* stop(): cancel the runner, await it (the lock's async-with releases on the
\* CancelledError, _runner re-raises it), forget the task
stop ==
    /\ prog = "relay"
    /\ IF update_task = 0
       THEN UNCHANGED <<tasks, update_task, lock>>
       ELSE /\ tasks' = [tasks EXCEPT ![update_task] = NoTask]
            /\ lock' = IF lock = update_task THEN 0 ELSE lock
            /\ update_task' = 0
    /\ UNCHANGED <<prog, pureVars, stats, db, botVars, histVars>>

\* faulty variant of ProcessCycleBegin: last_messages is not reset
ProcessCycleBeginNoReset(t) ==
    /\ prog = "relay"
    /\ tasks[t].pc = "runner"
    /\ lock = 0
    /\ lock' = t
    /\ stats' = [stats EXCEPT !.last_run = TRUE]
    /\ tasks' = [tasks EXCEPT ![t] = Task("fetch", 1, <<>>)]
    /\ NewCycle
    /\ UNCHANGED <<prog, pureVars, update_task, db, botVars>>

\* _process_cycle, lines 364-366: the lock is taken, the counters reset
ProcessCycleBegin(t) ==
    /\ prog = "relay"
    /\ tasks[t].pc = "runner"
    /\ lock = 0
    /\ lock' = t
    /\ stats' = [stats EXCEPT !.last_run = TRUE, !.last_messages = 0]
    /\ tasks' = [tasks EXCEPT ![t] = Task("fetch", 1, <<>>)]
    /\ NewCycle
    /\ UNCHANGED <<prog, pureVars, update_task, db, botVars>>

\* An exception leaves _process_cycle: the lock is released, _runner records
\* str(exc) in stats["errors"] and sleeps 60 seconds.
CycleFailed(t) ==
    /\ stats.errors < MaxErrors
    /\ lock' = IF lock = t THEN 0 ELSE lock
    /\ stats' = [stats EXCEPT !.errors = @ + 1]
    /\ tasks' = [tasks EXCEPT ![t].pc = "cooldown"]

\* the for loops of lines 368 and 370: the task after the current message
AfterMessage(tsk) == [tsk EXCEPT !.items = Tail(@), !.pc = "check"]

\* fetch_messages returns a list (empty for a non-200 page)
FetchMessages(t) ==
    /\ prog = "relay"
    /\ tasks[t].pc = "fetch"
    /\ \E S \in SUBSET MessagesOn(source_channels[tasks[t].src]) :
          tasks' = [tasks EXCEPT ![t].items = FetchResult(S), ![t].pc = "check"]
    /\ UNCHANGED <<prog, pureVars, update_task, relayVars, botVars, histVars>>

\* session.get raises inside fetch_messages: nothing in _process_cycle catches it
FetchMessagesRaises(t) ==
    /\ prog = "relay"
    /\ tasks[t].pc = "fetch"
    /\ CycleFailed(t)
    /\ UNCHANGED <<prog, pureVars, update_task, db, botVars, histVars>>

\* the channel's messages are exhausted: next channel, or the end of the cycle
\* (lines 380-383, the lock is released, _runner sleeps update_interval)
NextChannel(t) ==
    /\ prog = "relay"
    /\ tasks[t].pc = "check"
    /\ tasks[t].items = <<>>
    /\ IF tasks[t].src < Len(source_channels)
       THEN /\ tasks' = [tasks EXCEPT ![t].src = @ + 1, ![t].pc = "fetch"]
            /\ UNCHANGED lock
       ELSE /\ tasks' = [tasks EXCEPT ![t].src = @ + 1, ![t].pc = "sleep"]
            /\ lock' = IF lock = t THEN 0 ELSE lock
    /\ UNCHANGED <<prog, pureVars, update_task, stats, db, botVars, histVars>>

\* the first await of _publish for message m, or "check" when _publish returns
\* False without a send (no media and no text)
PublishEntry(m) ==
    IF m.media THEN "photo" ELSE IF m.text THEN "text" ELSE "check"

\* lines 371-374: is_message_posted, then _publish up to its first send
IsMessagePosted(t) ==
    /\ prog = "relay"
    /\ tasks[t].pc = "check"
    /\ tasks[t].items # <<>>
    /\ LET m == Current(t) IN
         IF RowOf(m) \in db \/ PublishEntry(m) = "check"
         THEN tasks' = [tasks EXCEPT ![t] = AfterMessage(@)]
         ELSE tasks' = [tasks EXCEPT ![t].pc = PublishEntry(m)]
    /\ UNCHANGED <<prog, pureVars, update_task, relayVars, botVars, histVars>>

\* aiosqlite raises in is_message_posted
IsMessagePostedRaises(t) ==
    /\ prog = "relay"
    /\ tasks[t].pc = "check"
    /\ tasks[t].items # <<>>
    /\ CycleFailed(t)
    /\ UNCHANGED <<prog, pureVars, update_task, db, botVars, histVars>>

\* faulty variant of SendPhoto: no return after the successful send_photo,
\* so that the text send of line 408 follows for a message that has text
SendPhotoThenText(t) ==
    /\ prog = "relay"
    /\ tasks[t].pc = "photo"
    /\ Sent(RowOf(Current(t)), "send_photo")
    /\ tasks' = [tasks EXCEPT ![t].pc = IF Current(t).text THEN "text" ELSE "mark"]
    /\ UNCHANGED <<prog, pureVars, update_task, relayVars, botVars>>

\* _publish, lines 388-397: send_photo succeeds
SendPhoto(t) ==
    /\ prog = "relay"
    /\ tasks[t].pc = "photo"
    /\ Sent(RowOf(Current(t)), "send_photo")
    /\ tasks' = [tasks EXCEPT ![t].pc = "mark"]
    /\ UNCHANGED <<prog, pureVars, update_task, relayVars, botVars>>

\* faulty variant of SendPhotoFails: the text send follows whether the message
\* has text or not
SendPhotoFailsTriesText(t) ==
    /\ prog = "relay"
    /\ tasks[t].pc = "photo"
    /\ tasks' = [tasks EXCEPT ![t].pc = "text"]
    /\ UNCHANGED <<prog, pureVars, update_task, relayVars, botVars, histVars>>

\* _publish, lines 398-406: send_photo raises; the text send follows when the
\* message has text, otherwise _publish returns False
SendPhotoFails(t) ==
    /\ prog = "relay"
    /\ tasks[t].pc = "photo"
    /\ IF Current(t).text
       THEN /\ tasks' = [tasks EXCEPT ![t].pc = "text"]
            /\ UNCHANGED histVars
       ELSE /\ tasks' = [tasks EXCEPT ![t] = AfterMessage(@)]
            /\ Failed(RowOf(Current(t)))
    /\ UNCHANGED <<prog, pureVars, update_task, relayVars, botVars>>

\* _publish, lines 406-415: send_message succeeds
SendText(t) ==
    /\ prog = "relay"
    /\ tasks[t].pc = "text"
    /\ Sent(RowOf(Current(t)), "send_message")
    /\ tasks' = [tasks EXCEPT ![t].pc = "mark"]
    /\ UNCHANGED <<prog, pureVars, update_task, relayVars, botVars>>

\* faulty variant of SendTextFails: _publish returns True although send_message raised
SendTextFailsReturnsTrue(t) ==
    /\ prog = "relay"
    /\ tasks[t].pc = "text"
    /\ tasks' = [tasks EXCEPT ![t].pc = "mark"]
    /\ UNCHANGED <<prog, pureVars, update_task, relayVars, botVars, histVars>>

\* _publish, lines 416-418: send_message raises, _publish returns False
SendTextFails(t) ==
    /\ prog = "relay"
    /\ tasks[t].pc = "text"
    /\ tasks' = [tasks EXCEPT ![t] = AfterMessage(@)]
    /\ Failed(RowOf(Current(t)))
    /\ UNCHANGED <<prog, pureVars, update_task, relayVars, botVars>>

\* faulty variant of AddPostedMessage: no asyncio.sleep(5) after the insert,
\* the loop goes on to the next message at once
AddPostedMessageNoSleep(t) ==
    /\ prog = "relay"
    /\ tasks[t].pc = "mark"
    /\ db' = db \cup {RowOf(Current(t))}
    /\ stats' = [stats EXCEPT !.last_messages = @ + 1, !.total_messages = @ + 1]
    /\ tasks' = [tasks EXCEPT ![t] = AfterMessage(@)]
    /\ UNCHANGED <<prog, pureVars, update_task, lock, botVars, histVars>>

\* lines 375-377: add_posted_message (INSERT OR IGNORE) and the counters
AddPostedMessage(t) ==
    /\ prog = "relay"
    /\ tasks[t].pc = "mark"
    /\ db' = db \cup {RowOf(Current(t))}
    /\ stats' = [stats EXCEPT !.last_messages = @ + 1, !.total_messages = @ + 1]
    /\ tasks' = [tasks EXCEPT ![t].pc = "pace"]
    /\ UNCHANGED <<prog, pureVars, update_task, lock, botVars, histVars>>

\* aiosqlite raises in add_posted_message
AddPostedMessageRaises(t) ==
    /\ prog = "relay"
    /\ tasks[t].pc = "mark"
    /\ CycleFailed(t)
    /\ UNCHANGED <<prog, pureVars, update_task, db, botVars, histVars>>

\* line 378: asyncio.sleep(5) is over
PacingSleep(t) ==
    /\ prog = "relay"
    /\ tasks[t].pc = "pace"
    /\ tasks' = [tasks EXCEPT ![t] = AfterMessage(@)]
    /\ UNCHANGED <<prog, pureVars, update_task, relayVars, botVars, histVars>>

\* faulty variant of RunnerSleep: the except handler of _runner leaves the
\* while loop after its sleep, the coroutine returns
RunnerSleepThenReturn(t) ==
    /\ prog = "relay"
    /\ tasks[t].pc \in {"sleep", "cooldown"}
    /\ tasks' = [tasks EXCEPT ![t].pc = IF @ = "cooldown" THEN "done" ELSE "runner"]
    /\ UNCHANGED <<prog, pureVars, update_task, relayVars, botVars, histVars>>

\* _runner: asyncio.sleep(update_interval) or asyncio.sleep(60) is over
RunnerSleep(t) ==
    /\ prog = "relay"
    /\ tasks[t].pc \in {"sleep", "cooldown"}
    /\ tasks' = [tasks EXCEPT ![t].pc = "runner"]
    /\ UNCHANGED <<prog, pureVars, update_task, relayVars, botVars, histVars>>

\* the process ends at any point and is launched again: on_startup builds a
\* new NewsRelay over the existing posted_messages.db
RelayRestart ==
    /\ prog = "relay"
    /\ tasks' = [t \in TaskIds |-> NoTask]
    /\ update_task' = 0
    /\ lock' = 0
    /\ stats' = NoStats
    /\ lastPub' = NoPub
    /\ lastFail' = NoFail
    /\ UNCHANGED <<prog, pureVars, db, botVars, sentOk>>

-----------------------------------------------------------------------------
(* main.py: NewsBot *)

\* faulty variant of run: a second run() creates a second task
runTwice ==
    /\ prog = "bot"
    /\ running' = TRUE
    /\ FreeSlots # {}
    /\ app_running' = TRUE
    /\ tasks' = [tasks EXCEPT ![NewSlot] = Task("loop", 0, <<>>)]
    /\ update_task' = NewSlot
    /\ UNCHANGED <<prog, pureVars, relayVars, posted_links, content_checks, disk, histVars>>

\* run(): Application.start() (python-telegram-bot) raises RuntimeError when
\* the application is already running, so a second run() ends at line 728,
\* before the create_task of line 730.
run ==
    /\ prog = "bot"
    /\ running' = TRUE
    /\ IF app_running
       THEN UNCHANGED <<app_running, tasks, update_task>>
       ELSE /\ FreeSlots # {}
            /\ app_running' = TRUE
            /\ tasks' = [tasks EXCEPT ![NewSlot] = Task("loop", 0, <<>>)]
            /\ update_task' = NewSlot
    /\ UNCHANGED <<prog, pureVars, relayVars, posted_links, content_checks, disk, histVars>>

\* main() calls run() once, at the start of the process; a further run() is
\* a request arriving while the bot is running
MainRun == (update_task = 0 \/ running) /\ run

\* save_state: the size limit, then the write
save_state(pl, cc, outcome) ==
    /\ posted_links' \in Limited(pl)
    /\ content_checks' \in Limited(cc)
    /\ disk' = Written(disk, Snapshot(posted_links', content_checks'), outcome)

\* stop(): the task is cancelled and awaited, then the state is saved
BotStop ==
    /\ prog = "bot"
    /\ running' = FALSE
    /\ IF update_task # 0
       THEN tasks' = [tasks EXCEPT ![update_task] = Task("cancelled", 0, <<>>)]
       ELSE UNCHANGED tasks
    /\ \E outcome \in WriteOutcomes : save_state(posted_links, content_checks, outcome)
    /\ app_running' = FALSE
    /\ UNCHANGED <<prog, pureVars, update_task, relayVars, histVars>>

\* main(): stop() runs once, in the finally of a process that called run()
MainStop == running /\ BotStop

\* fetch_and_publish_news, line 677: while self.running
WhileRunning(t) ==
    /\ prog = "bot"
    /\ tasks[t].pc = "loop"
    /\ IF running
       THEN /\ tasks' = [tasks EXCEPT ![t] = Task("fetch", 1, <<>>)]
            /\ NewCycle
       ELSE /\ tasks' = [tasks EXCEPT ![t] = Task("done", 0, <<>>)]
            /\ UNCHANGED histVars
    /\ UNCHANGED <<prog, pureVars, update_task, relayVars, botVars>>

\* the for loop of line 682: the task after the current source; after the
\* last one clear_caches runs and the task sleeps UPDATE_INTERVAL
AfterSource(tsk) ==
    IF tsk.src < Len(NEWS_SOURCES)
    THEN Task("fetch", tsk.src + 1, <<>>)
    ELSE Task("sleep", tsk.src + 1, <<>>)

\* the for loop of line 693: the task after the current entry
AfterEntry(tsk) ==
    IF Len(tsk.items) > 1
    THEN Task("prepare", tsk.src, Tail(tsk.items))
    ELSE AfterSource(tsk)

\* lines 685-693: fetch_feed returns the parsed feed
FetchFeed(t) ==
    /\ prog = "bot"
    /\ tasks[t].pc = "fetch"
    /\ \E feed \in FeedsOf(NEWS_SOURCES[tasks[t].src]) :
          IF feed = <<>>
          THEN tasks' = [tasks EXCEPT ![t] = AfterSource(@)]
          ELSE tasks' = [tasks EXCEPT ![t] =
                            Task("prepare", @.src, Take(feed, EntriesPerCycle))]
    /\ UNCHANGED <<prog, pureVars, update_task, relayVars, botVars, histVars>>

\* fetch_feed returns None: a status other than 200, or an exception that its
\* own handler catches (lines 654-673)
FetchFeedFails(t) ==
    /\ prog = "bot"
    /\ tasks[t].pc = "fetch"
    /\ tasks' = [tasks EXCEPT ![t] = AfterSource(@)]
    /\ UNCHANGED <<prog, pureVars, update_task, relayVars, botVars, histVars>>

\* faulty variant of AlreadyPosted: the content hash is not checked
AlreadyPostedByLink(link) == link \in posted_links.named

\* prepare_news_message, lines 503-525: the two dedupe checks
AlreadyPosted(link) ==
    \/ link \in posted_links.named
    \/ content_hash(link) \in content_checks.named

\* faulty variant of PrepareNewsMessage: only the link is checked, not the
\* content hash
PrepareNewsMessageLinkOnly(t) ==
    /\ prog = "bot"
    /\ tasks[t].pc = "prepare"
    /\ ~AlreadyPostedByLink(Current(t))
    /\ \E first \in {"media", "send"} : tasks' = [tasks EXCEPT ![t].pc = first]
    /\ UNCHANGED <<prog, pureVars, update_task, relayVars, botVars, histVars>>

\* prepare_news_message returns a news item: the entry has a title, a link and
\* a description, passes both dedupe checks, and no stage raises.  The item
\* goes to send_media_group ("media") when get_best_image found an image and
\* the item is no research report (line 612), to send_message ("send")
\* otherwise.
PrepareNewsMessage(t) ==
    /\ prog = "bot"
    /\ tasks[t].pc = "prepare"
    /\ ~AlreadyPosted(Current(t))
    /\ \E first \in {"media", "send"} : tasks' = [tasks EXCEPT ![t].pc = first]
    /\ UNCHANGED <<prog, pureVars, update_task, relayVars, botVars, histVars>>

\* prepare_news_message returns None because a dedupe check finds the entry
PrepareSkipsPosted(t) ==
    /\ prog = "bot"
    /\ tasks[t].pc = "prepare"
    /\ AlreadyPosted(Current(t))
    /\ tasks' = [tasks EXCEPT ![t] = AfterEntry(@)]
    /\ UNCHANGED <<prog, pureVars, update_task, relayVars, botVars, histVars>>

\* prepare_news_message returns None for another reason: no title, no
\* description and no article text, or an exception (lines 494-517, 601-603)
PrepareReturnsNone(t) ==
    /\ prog = "bot"
    /\ tasks[t].pc = "prepare"
    /\ tasks' = [tasks EXCEPT ![t] = AfterEntry(@)]
    /\ UNCHANGED <<prog, pureVars, update_task, relayVars, botVars, histVars>>

\* send_news_item, lines 612-637: the send returns; the item is recorded and
\* the state saved
SendNewsItem(t, outcome) ==
    /\ prog = "bot"
    /\ tasks[t].pc \in {"media", "send"}
    /\ Sent(Current(t), IF tasks[t].pc = "media" THEN "send_media_group" ELSE "send_message")
    /\ save_state(Add(posted_links, Current(t)),
                  Add(content_checks, content_hash(Current(t))), outcome)
    /\ tasks' = [tasks EXCEPT ![t].pc = "pace"]
    /\ UNCHANGED <<prog, pureVars, update_task, relayVars, running, app_running>>

\* faulty variant of SendNewsItemFails: the link is recorded before the send
\* is awaited and stays recorded when the send raises
SendNewsItemFailsMarked(t) ==
    /\ prog = "bot"
    /\ tasks[t].pc \in {"media", "send"}
    /\ posted_links' = Add(posted_links, Current(t))
    /\ content_checks' = Discard(content_checks, content_hash(Current(t)))
    /\ tasks' = [tasks EXCEPT ![t].pc = "pace"]
    /\ Failed(Current(t))
    /\ UNCHANGED <<prog, pureVars, update_task, relayVars, running, app_running, disk>>

\* send_news_item, lines 638-642: the send raises
SendNewsItemFails(t) ==
    /\ prog = "bot"
    /\ tasks[t].pc \in {"media", "send"}
    /\ content_checks' = Discard(content_checks, content_hash(Current(t)))
    /\ tasks' = [tasks EXCEPT ![t].pc = "pace"]
    /\ Failed(Current(t))
    /\ UNCHANGED <<prog, pureVars, update_task, relayVars, running, app_running,
                   posted_links, disk>>

\* line 705: asyncio.sleep(25) is over
BotPacingSleep(t) ==
    /\ prog = "bot"
    /\ tasks[t].pc = "pace"
    /\ tasks' = [tasks EXCEPT ![t] = AfterEntry(@)]
    /\ UNCHANGED <<prog, pureVars, update_task, relayVars, botVars, histVars>>

\* line 718: asyncio.sleep(UPDATE_INTERVAL) is over
CycleSleep(t) ==
    /\ prog = "bot"
    /\ tasks[t].pc = "sleep"
    /\ tasks' = [tasks EXCEPT ![t].pc = "loop"]
    /\ UNCHANGED <<prog, pureVars, update_task, relayVars, botVars, histVars>>

\* the process ends at any point and is launched again: NewsBot.__init__
\* loads the state file
BotRestart ==
    /\ prog = "bot"
    /\ tasks' = [t \in TaskIds |-> NoTask]
    /\ update_task' = 0
    /\ running' = FALSE
    /\ app_running' = FALSE
    /\ posted_links' = Loaded(disk).posted_links
    /\ content_checks' = Loaded(disk).content_checks
    /\ lastPub' = NoPub
    /\ lastFail' = NoFail
    /\ UNCHANGED <<prog, pureVars, relayVars, disk, sentOk>>

-----------------------------------------------------------------------------
(* main.py: NewsBot.translate_text *)

schedVars == <<tasks, update_task, lock, stats, db, running, app_running,
               posted_links, content_checks, disk, sentOk, lastPub, lastFail>>

\* lines 369-378: empty text, text already Russian, cache hit; otherwise the
\* DeepLX loop begins
TranslateText(text, target_lang) ==
    /\ prog = "translate"
    /\ call.pc = "idle"
    /\ LET c == [NoCall EXCEPT !.text = text, !.target_lang = target_lang]
           key == cache_key(text, target_lang)
       IN  call' = IF text = <<>> THEN Returns(c, text, "empty")
                   ELSE IF is_russian(text) THEN Returns(c, text, "russian")
                   ELSE IF InCache(translation_cache, key)
                        THEN Returns(c, translation_cache.named[key], "cache")
                        ELSE [c EXCEPT !.pc = "deeplx"]
    /\ UNCHANGED <<prog, schedVars, parse, translation_cache, prev, node, html>>

\* faulty variant of AfterAttempt: MyMemory is tried after the first failed
\* DeepLX attempt
AfterAttemptNoRetry(c) ==
    [c EXCEPT !.attempt = @ + 1, !.fails = @ + 1, !.pc = "mymemory"]

\* the task after a failed DeepLX attempt and its asyncio.sleep(1)
AfterAttempt(c) ==
    [c EXCEPT !.attempt = @ + 1,
              !.fails = @ + 1,
              !.pc = IF c.attempt + 1 < DeepLXAttempts THEN "deeplx" ELSE "mymemory"]

\* lines 383-406: one attempt of the DeepLX loop
DeepLX(response) ==
    /\ prog = "translate"
    /\ call.pc = "deeplx"
    /\ LET c == [call EXCEPT !.calls = @ + 1]
           translated == DeepLXData(call.text, response)
       IN  IF response.kind \in {"data", "no_data"} /\ is_russian(translated)
           THEN /\ translation_cache' =
                      Store(translation_cache, cache_key(call.text, call.target_lang), translated)
                /\ call' = Returns(c, translated, "deeplx")
           ELSE /\ call' = AfterAttempt(c)
                /\ UNCHANGED translation_cache
    /\ UNCHANGED <<prog, schedVars, parse, prev, node, html>>

\* faulty variant of MyMemory: the fallback result is returned without being cached
MyMemoryNotCached(response) ==
    /\ prog = "translate"
    /\ call.pc = "mymemory"
    /\ LET translated == translate_with_mymemory(call.text, response)
           c == [call EXCEPT !.calls = @ + 1, !.mm_called = TRUE, !.mm = translated]
       IN  call' = IF is_russian(translated)
                   THEN Returns(c, translated, "mymemory")
                   ELSE Returns(c, call.text, "original")
    /\ UNCHANGED <<prog, schedVars, parse, translation_cache, prev, node, html>>

\* lines 408-415: translate_with_mymemory, then the language check
MyMemory(response) ==
    /\ prog = "translate"
    /\ call.pc = "mymemory"
    /\ LET translated == translate_with_mymemory(call.text, response)
           c == [call EXCEPT !.calls = @ + 1, !.mm_called = TRUE, !.mm = translated]
       IN  IF is_russian(translated)
           THEN /\ translation_cache' =
                      Store(translation_cache, cache_key(call.text, call.target_lang), translated)
                /\ call' = Returns(c, translated, "mymemory")
           ELSE /\ call' = Returns(c, call.text, "original")
                /\ UNCHANGED translation_cache
    /\ UNCHANGED <<prog, schedVars, parse, prev, node, html>>

\* the caller (prepare_news_message) has the result
TranslateReturn ==
    /\ prog = "translate"
    /\ call.pc = "done"
    /\ prev' = [text |-> call.text, target_lang |-> call.target_lang,
                result |-> call.result, via |-> call.via]
    /\ call' = NoCall
    /\ UNCHANGED <<prog, schedVars, parse, translation_cache, node, html>>

\* clear_caches, lines 278-281, at the end of a cycle
clear_caches ==
    /\ prog = "translate"
    /\ call.pc = "idle"
    /\ IF CacheSize(translation_cache) > MAX_CACHE_SIZE
       THEN /\ translation_cache' = EmptyCache
            /\ prev' = NoPrev
       ELSE UNCHANGED <<translation_cache, prev>>
    /\ UNCHANGED <<prog, schedVars, parse, call, node, html>>

NextTranslate ==
    \/ \E text \in Texts, target_lang \in Languages : TranslateText(text, target_lang)
    \/ \E response \in DeepLXResponses : DeepLX(response)
    \/ \E response \in MyMemoryResponses : MyMemory(response)
    \/ TranslateReturn
    \/ clear_caches

SpecTranslate == InitTranslate /\ [][NextTranslate]_vars

-----------------------------------------------------------------------------
(* bot.py: TelegramChannelParser._extract_text *)

\* line 215: html_content = html_from_bs(text_block)
ExtractText ==
    /\ prog = "render"
    /\ ~html.returned
    /\ html' = [returned |-> TRUE, value |-> html_from_bs(node)]
    /\ UNCHANGED <<prog, schedVars, parse, translation_cache, call, prev, node>>

SpecRender == InitRender /\ [][ExtractText]_vars

-----------------------------------------------------------------------------
(* Specifications *)

\* steps of the NewsRelay runner other than failures of the posted_messages
\* database
RelayStep(t) ==
    \/ ProcessCycleBegin(t)
    \/ FetchMessages(t)
    \/ FetchMessagesRaises(t)
    \/ NextChannel(t)
    \/ IsMessagePosted(t)
    \/ SendPhoto(t)
    \/ SendPhotoFails(t)
    \/ SendText(t)
    \/ SendTextFails(t)
    \/ AddPostedMessage(t)
    \/ PacingSleep(t)
    \/ RunnerSleep(t)

\* steps of the NewsBot task other than a successful send
BotStep(t) ==
    \/ WhileRunning(t)
    \/ FetchFeed(t)
    \/ FetchFeedFails(t)
    \/ PrepareNewsMessage(t)
    \/ PrepareSkipsPosted(t)
    \/ PrepareReturnsNone(t)
    \/ SendNewsItemFails(t)
    \/ BotPacingSleep(t)
    \/ CycleSleep(t)

\* The environment in which the identity store always works and the process
\* is neither stopped nor restarted.  Feeds, pages and the sink may fail.
NextNoStoreFault ==
    \/ start
    \/ MainRun
    \/ \E t \in TaskIds : RelayStep(t)
    \/ \E t \in TaskIds : BotStep(t)
    \/ \E t \in TaskIds : SendNewsItem(t, "ok")

\* failures of the identity store, stop requests and restarts
StoreFault ==
    \/ stop
    \/ RelayRestart
    \/ MainStop
    \/ BotRestart
    \/ \E t \in TaskIds : IsMessagePostedRaises(t)
    \/ \E t \in TaskIds : AddPostedMessageRaises(t)
    \/ \E t \in TaskIds : SendNewsItem(t, "open_failed")
    \/ \E t \in TaskIds : SendNewsItem(t, "dump_failed")

Next == NextNoStoreFault \/ StoreFault

Spec == Init /\ [][Next]_vars

SpecNoStoreFault == Init /\ [][NextNoStoreFault]_vars

-----------------------------------------------------------------------------
(* Claims *)

\* the identity key of the item a task is working on
Key(t) == IF prog = "relay" THEN RowOf(Current(t)) ELSE Current(t)

\* the step is a sink send that returns successfully, made by task t
SuccessfulSend(t) == SendPhoto(t) \/ SendText(t) \/ \E o \in WriteOutcomes : SendNewsItem(t, o)

\* C1 (as claimed): a candidate that was sent successfully in one cycle gets
\* no sink call in the next cycle -- no task is about to call the sink for the
\* item that was sent during the previous cycle.
C1_IdempotentDedup ==
    \A t \in TaskIds :
        tasks[t].pc \in SendPcs => ~(lastPub.age = 1 /\ Key(t) \in lastPub.item)

\* C2: every identity key in the store (posted_messages; posted_links and
\* content_checks, in memory and in the state file) belongs to an item for
\* which a sink send has returned successfully.
C2_MarkOnlyOnSuccess ==
    /\ prog = "relay" => db \subseteq sentOk
    /\ prog = "bot" =>
         /\ posted_links.named \subseteq sentOk
         /\ content_checks.named \subseteq {content_hash(x) : x \in sentOk}
         /\ disk.posted_links.named \subseteq sentOk
         /\ disk.content_checks.named \subseteq {content_hash(x) : x \in sentOk}

\* C2 witness: the send of an entry has just failed (the task is in the delay
\* that follows send_news_item, the entry was never sent successfully) and
\* the entry is not in the store, which holds an entry sent earlier
C2_Witness ==
    /\ prog = "bot"
    /\ posted_links.named # {}
    /\ \E t \in TaskIds :
          /\ tasks[t].pc = "pace"
          /\ Current(t) \notin sentOk
          /\ Current(t) \notin posted_links.named

C4_CycleIsolation ==
    \A t \in TaskIds :
        (tasks[t].pc \in {"sleep", "cooldown"} /\ tasks[t].items = <<>>)
            => tasks[t].src >= Len(IF prog = "relay" THEN source_channels ELSE NEWS_SOURCES)

\* C5 (as claimed): once an entry has been published, no entry with another
\* link and the same title+description reaches the sink.
C5_FingerprintCatchesRotation ==
    prog = "bot" =>
        \A t \in TaskIds :
            tasks[t].pc \in {"media", "send"} =>
                \A x \in sentOk :
                    x # Current(t) => content_hash(x) # content_hash(Current(t))

\* C6 (as claimed): no item receives more than one successful sink send.
C6_AtMostOnce ==
    [][\A t \in TaskIds : SuccessfulSend(t) => Key(t) \notin sentOk]_vars

\* the identity store holds the key (or, in NewsBot, the fingerprint) of item x
Marked(x) ==
    IF prog = "relay"
    THEN x \in db
    ELSE x \in posted_links.named \/ content_hash(x) \in content_checks.named

\* C6 (amended): no sink call is made for an item while the identity store
\* holds its key or fingerprint -- a second send happens only to an item
\* whose mark is missing from the store.
C6_NoSendWhileMarked ==
    \A t \in TaskIds : tasks[t].pc \in SendPcs => ~Marked(Key(t))

\* C6 witness: an item that is marked is offered again to the dedupe check
C6_Witness ==
    \E t \in TaskIds :
        /\ tasks[t].pc \in {"check", "prepare"}
        /\ tasks[t].items # <<>>
        /\ Marked(Key(t))

\* C7: the identity sets never hold more than MAX_HISTORY_SIZE members, in
\* memory after save_state and load_state, and in the state file.
C7_EvictionBound ==
    prog = "bot" =>
        /\ Size(posted_links) <= MAX_HISTORY_SIZE
        /\ Size(content_checks) <= MAX_HISTORY_SIZE
        /\ Size(disk.posted_links) <= MAX_HISTORY_SIZE
        /\ Size(disk.content_checks) <= MAX_HISTORY_SIZE

\* C7 witness: more records have been inserted than the ceiling admits
C7_Witness ==
    /\ prog = "bot"
    /\ Size(posted_links) = MAX_HISTORY_SIZE
    /\ posted_links.others < MAX_HISTORY_SIZE - 1

\* C8 (as claimed): eviction removes the oldest records, so the item just
\* published, and the one published before it, are still in the sets.
C8_FifoEviction ==
    prog = "bot" =>
        /\ lastPub.item \subseteq posted_links.named
        /\ {content_hash(x) : x \in lastPub.item} \subseteq content_checks.named

\* C9: when both DeepLX attempts of a translate_text call failed and
\* translate_with_mymemory returned a text that passes is_russian, the call
\* returns that text and translation_cache holds it under the call's key; and
\* the next call with the same text and target language returns the same
\* value without any provider call.
C9_TranslationFallback ==
    call.pc = "done" =>
        LET key == cache_key(call.text, call.target_lang) IN
        /\ (call.fails = DeepLXAttempts /\ call.mm_called /\ is_russian(call.mm)) =>
              /\ call.result = call.mm
              /\ InCache(translation_cache, key)
              /\ translation_cache.named[key] = call.mm
        /\ (prev.via = "mymemory" /\ prev.text = call.text
                /\ prev.target_lang = call.target_lang) =>
              /\ call.result = prev.result
              /\ call.calls = 0

\* C9 witness: a call answered from the cache right after the call that
\* obtained the value from MyMemory (an upper-case answer, capitalized)
C9_Witness ==
    /\ call.pc = "done"
    /\ call.via = "cache"
    /\ call.calls = 0
    /\ prev.via = "mymemory"
    /\ prev.text = call.text
    /\ prev.target_lang = call.target_lang
    /\ call.result = <<"CYR_P", "cyr_r">>

\* the tags Telegram's HTML parse mode is given
CanonicalTags == {"b", "i", "u", "s", "code", "pre", "a", "blockquote"}

\* token i lies inside the value of an href attribute
InHref(tokens, i) ==
    \E j \in 1..(i - 1) :
        /\ tokens[j].kind = "a_open"
        /\ \A k \in (j + 1)..i : tokens[k].kind # "a_mid"

\* the character an entity stands for
Unescape(v) ==
    CASE v = "&amp;"  -> "&"
      [] v = "&lt;"   -> "<"
      [] v = "&gt;"   -> ">"
      [] v = "&quot;" -> "\""
      [] v = "&#x27;" -> "'"
      [] OTHER        -> v

\* the text a reader of the rendered message sees: the text tokens outside
\* attribute values, entities decoded
RECURSIVE VisibleFrom(_, _)
VisibleFrom(tokens, i) ==
    IF i > Len(tokens) THEN <<>>
    ELSE (IF tokens[i].kind = "text" /\ ~InHref(tokens, i)
          THEN <<Unescape(tokens[i].v)>> ELSE <<>>) \o VisibleFrom(tokens, i + 1)

\* the text of the elements: the texts of all strings in document order, a
\* line break for br, a space for the no-break space
RECURSIVE TextOf(_)
TextOf(children) ==
    IF children = <<>> THEN <<>>
    ELSE LET n == Head(children)
         IN  (IF n.type = "NavigableString"
              THEN [i \in 1..Len(n.text) |-> IF n.text[i] = "nbsp" THEN " " ELSE n.text[i]]
              ELSE IF n.name = "br" THEN <<"\n">>
              ELSE TextOf(n.children)) \o TextOf(Tail(children))

\* the canonical tag an element is written as, "" when it is unwrapped or
\* removed
CanonicalOf(n) ==
    CASE n.name \in {"b", "B", "strong"}           -> "b"
      [] n.name \in {"i", "em"}                    -> "i"
      [] n.name \in {"u", "ins"}                   -> "u"
      [] n.name \in {"s", "strike", "del"}         -> "s"
      [] n.name \in {"code", "pre", "blockquote"}  -> n.name
      [] n.name = "a" /\ n.href.present /\ n.href.value # <<>> -> "a"
      [] OTHER                                     -> ""

\* the canonical tags of the elements, in document order
RECURSIVE TagsOf(_)
TagsOf(children) ==
    IF children = <<>> THEN <<>>
    ELSE LET n == Head(children)
         IN  (IF n.type # "Tag" \/ n.name = "br" THEN <<>>
              ELSE (IF CanonicalOf(n) = "" THEN <<>> ELSE <<CanonicalOf(n)>>)
                      \o TagsOf(n.children)) \o TagsOf(Tail(children))

IsOpening(token) == token.kind \in {"open", "a_open"}

\* the names of the opening tags of the returned string, in order
OpenedIn(tokens) ==
    LET opening == SelectSeq(tokens, IsOpening)
    IN  [i \in 1..Len(opening) |-> opening[i].v]

\* C10: the string html_from_bs returns has no tag other than the canonical
\* ones, each allowed element written as its canonical tag (strong as b, em
\* as i, ins as u, strike and del as s; span and tg-emoji unwrapped); it has
\* no raw <, > or & in its text or in an href value and no raw quote in an
\* href value; and it shows the text of every element of the block, also of
\* those inside a tag that is not allowed, with a line break for br.
C10_RichTextSafety ==
    html.returned =>
        LET out == html.value IN
        /\ \A i \in 1..Len(out) :
              /\ out[i].kind \in {"open", "close"} => out[i].v \in CanonicalTags
              /\ out[i].kind = "text" => out[i].v \notin {"<", ">", "&"}
              /\ (out[i].kind = "text" /\ InHref(out, i)) => out[i].v # "\""
        /\ OpenedIn(out) = TagsOf(node.children)
        /\ VisibleFrom(out, 1) = TextOf(node.children)

\* C10 witness: <script><strong>&lt;x&gt;</strong></script> has been rendered
\* as <b>&lt;x&gt;</b>
C10_Witness ==
    /\ html.returned
    /\ node.children =
         <<Tag("script", NoHref, <<Tag("strong", NoHref, <<NavigableString(<<"<", "x", ">">>)>>)>>)>>
    /\ html.value = <<Token("open", "b"), Token("text", "&lt;"), Token("text", "x"),
                      Token("text", "&gt;"), Token("close", "b")>>

--------------------------------------------------------------------------------
\* Publish gate: fallback and single delivery (C11, C12)

\* the item task t is publishing has a text to send: every NewsBot item
\* carries its message; a relayed message may consist of media only
HasText(t) == IF prog = "relay" THEN Current(t).text ELSE TRUE

\* the step is a failed image send (send_photo, send_media_group) of task t
ImageSendFails(t) ==
    \/ SendPhotoFails(t)
    \/ tasks[t].pc = "media" /\ SendNewsItemFails(t)

\* C11 (as claimed): when the image send of an item that has a text fails,
\* the publish call goes on to a text-only send attempt for the same item.
C11_ImageFallback ==
    [][\A t \in TaskIds :
          ImageSendFails(t) /\ HasText(t) =>
              /\ tasks'[t].pc \in TextPcs
              /\ tasks'[t].items = tasks[t].items]_vars

\* C12: one publish call makes at most one successful sink send.  A
\* successful send ends the call (no send is pending for the task after it),
\* and a text-only send is reached only from the dedupe check, when no image
\* send is made, or from the failure of the image send of the same item.
C12_NoDoublePublish ==
    [][\A t \in TaskIds :
          /\ SuccessfulSend(t) => tasks'[t].pc \notin SendPcs
          /\ (tasks'[t].pc \in TextPcs /\ tasks[t].pc \in ImagePcs) =>
                 /\ ImageSendFails(t)
                 /\ tasks'[t].items = tasks[t].items
          /\ (tasks'[t].pc \in TextPcs /\ tasks[t].pc \notin ImagePcs) =>
                 tasks[t].pc \in TextPcs \cup {"check", "prepare"}]_vars

\* C12 witness: send_photo has succeeded for a message that also has a text,
\* and the task is at the insert into posted_messages, not at send_message
C12_Witness ==
    /\ prog = "relay"
    /\ \E t \in TaskIds :
          /\ tasks[t].pc = "mark"
          /\ Current(t).text /\ Current(t).media
          /\ lastPub = [item |-> {RowOf(Current(t))}, age |-> 0, by |-> "send_photo"]

--------------------------------------------------------------------------------
\* Failed publish and restart (C13, C14)

\* the step is the end of a publish call of task t in which every send failed
PublishFails(t) ==
    \/ SendTextFails(t)
    \/ SendPhotoFails(t) /\ ~Current(t).text
    \/ SendNewsItemFails(t)

\* Marked(x) in the state after the step
MarkedNext(x) ==
    IF prog = "relay"
    THEN x \in db'
    ELSE x \in posted_links'.named \/ content_hash(x) \in content_checks'.named

\* C13: a publish call in which every send fails leaves the item without its
\* key and fingerprint in the store and the task inside its cycle; the item
\* stays unmarked for as long as no send of the same story succeeds, and when
\* the next cycle offers it to the dedupe check again, the check lets it pass
\* to the sink.
C13_FailedPublishRetryable ==
    [][\A t \in TaskIds :
          /\ PublishFails(t) =>
                \A x \in {Key(t)} :
                    /\ lastFail'.item = {x}
                    /\ ~MarkedNext(x)
                    /\ tasks'[t].pc \in CyclePcs
          /\ \A x \in lastFail'.item : ~MarkedNext(x)
          /\ ( /\ lastFail.age = 1
               /\ tasks[t].pc \in {"check", "prepare"}
               /\ tasks[t].items # <<>>
               /\ Key(t) \in lastFail.item ) =>
                  /\ ~PrepareSkipsPosted(t)
                  /\ IsMessagePosted(t) => tasks'[t].pc \in SendPcs]_vars

\* C13 witness: in the cycle after the one in which its publish call failed,
\* the item has passed the dedupe check and is about to be sent again
C13_Witness ==
    /\ lastFail.age = 1
    /\ \E t \in TaskIds :
          /\ tasks[t].pc \in SendPcs
          /\ Key(t) \in lastFail.item

\* A restart of the process that does not interrupt a publish: the relay is
\* not between the sink send and the insert into posted_messages (NewsBot
\* sends, records and saves without a point at which another step can come in
\* between).
CleanRestart ==
    \/ RelayRestart /\ \A t \in TaskIds : tasks[t].pc # "mark"
    \/ BotRestart

\* The environment of SpecNoStoreFault in which the process can also be
\* restarted between publishes.
NextCleanRestart == NextNoStoreFault \/ CleanRestart

SpecCleanRestart == Init /\ [][NextCleanRestart]_vars

\* C14 (as claimed): when the process is restarted after a successful
\* publish, init_db / load_state come up with the key and the fingerprint of
\* the item published last in the store, so that the item is reported as seen.
C14_DurableAcrossRestart ==
    [][CleanRestart => \A x \in lastPub.item : MarkedNext(x)]_vars

--------------------------------------------------------------------------------
\* Cycle scheduler: cooldown, continuation and stop (C15, C16, C17)

\* asyncio.sleep(60) of the two except handlers of the cycle loops
COOLDOWN == 60

\* main.py, line 52
UPDATE_INTERVAL == 300

\* bot.py, line 69: the default of the UPDATE_INTERVAL setting
update_interval == 600

\* the sleep between two cycles that end normally
NormalInterval == IF prog = "relay" THEN update_interval ELSE UPDATE_INTERVAL

\* faulty variant of Delay: the handler of a failed cycle sleeps the normal
\* interval
DelaySameAfterError(t) ==
    CASE tasks[t].pc = "cooldown" -> NormalInterval
      [] tasks[t].pc = "sleep"    -> NormalInterval
      [] tasks[t].pc = "pace"     -> IF prog = "relay" THEN 5 ELSE 25
      [] OTHER                    -> 0

\* the seconds of the asyncio.sleep in which task t is waiting
Delay(t) ==
    CASE tasks[t].pc = "cooldown" -> COOLDOWN
      [] tasks[t].pc = "sleep"    -> NormalInterval
      [] tasks[t].pc = "pace"     -> IF prog = "relay" THEN 5 ELSE 25
      [] OTHER                    -> 0

\* C15 (as claimed): after an exception that escaped the cycle the scheduler
\* sleeps longer than the normal interval between cycles.
C15_LongerCooldown ==
    \A t \in TaskIds : tasks[t].pc = "cooldown" => Delay(t) > NormalInterval

\* C15 (amended): after an exception that escaped the cycle the scheduler
\* sleeps the fixed cooldown of 60 seconds, which differs from the normal
\* interval and, with the default settings, is shorter than it.
C15_FixedCooldown ==
    \A t \in TaskIds :
        tasks[t].pc = "cooldown" =>
            /\ Delay(t) = COOLDOWN
            /\ Delay(t) # NormalInterval
            /\ Delay(t) < NormalInterval

\* C15 witness: a cycle has failed, the error is recorded and the task is in
\* the sleep of the except handler
C15_Witness ==
    \E t \in TaskIds : tasks[t].pc = "cooldown" /\ stats.errors > 0 /\ lock = 0

\* a step of the cycle task t, exceptions of the identity store and of the
\* state file included
TaskStep(t) ==
    \/ RelayStep(t)
    \/ BotStep(t)
    \/ \E outcome \in WriteOutcomes : SendNewsItem(t, outcome)
    \/ IsMessagePostedRaises(t)
    \/ AddPostedMessageRaises(t)

\* The program while nobody asks it to stop: the event loop keeps running the
\* cycle task, every await of which returns or raises in the end.
NextNoStop ==
    \/ start
    \/ MainRun
    \/ \E t \in TaskIds : TaskStep(t)

SpecNoStop ==
    Init /\ [][NextNoStop]_vars /\ \A t \in TaskIds : WF_vars(TaskStep(t))

\* task t has caught an exception in the cycle it is running or has just
\* left: the cycle failed as a whole, or a publish call failed in it
Erred(t) ==
    \/ tasks[t].pc = "cooldown"
    \/ InCycle(t) /\ lastFail.item # {} /\ lastFail.age = 0

\* task t has just begun a cycle
CycleStarted(t) == tasks[t].pc = "fetch" /\ tasks[t].src = 1

\* C16: while no stop is requested, a task that caught an exception in a
\* cycle goes on to start a later cycle, and no task ever leaves its loop.
C16_SchedulerKeepsRunning ==
    /\ \A t \in TaskIds : Erred(t) ~> CycleStarted(t)
    /\ [](\A t \in TaskIds : tasks[t].pc \notin {"done", "cancelled"})

\* C16 witness: NewsRelay has begun a cycle after a cycle that failed
C16_Witness ==
    \E t \in TaskIds : CycleStarted(t) /\ stats.errors > 0

\* stop() has returned and the program was not started again
Stopped ==
    IF prog = "relay"
    THEN update_task = 0
    ELSE ~running /\ update_task # 0

\* Stopped in the state after the step
StoppedNext ==
    IF prog = "relay"
    THEN update_task' = 0
    ELSE ~running' /\ update_task' # 0

\* C17: stop() leaves no cycle task alive -- the task is cancelled by the
\* time the final state is written, the file NewsBot writes is the write of
\* the sets as they are after the cancellation -- and while the program stays
\* stopped no sink send succeeds and the identity store does not change.
C17_StopOrdering ==
    /\ [](Stopped => \A t \in TaskIds : tasks[t].pc \in {"none", "cancelled", "done"})
    /\ [][BotStop =>
             /\ \A t \in TaskIds : tasks'[t].pc \in {"none", "cancelled", "done"}
             /\ \E outcome \in WriteOutcomes :
                   disk' = Written(disk, Snapshot(posted_links', content_checks'), outcome)]_vars
    /\ [][Stopped /\ StoppedNext =>
             UNCHANGED <<sentOk, db, posted_links, content_checks, disk>>]_vars

\* C17 witness: NewsBot was stopped after it had published; its task is
\* cancelled and the state file holds the published link
C17_Witness ==
    /\ prog = "bot"
    /\ Stopped
    /\ \E t \in TaskIds : tasks[t].pc = "cancelled"
    /\ sentOk # {}
    /\ disk.posted_links.named # {}

--------------------------------------------------------------------------------
\* Per-item isolation (C18)

\* the step is a failure in the processing of the item task t is at: the
\* transform fails, the publish call fails, or the identity store raises in
\* the lookup or in the insert for the item
ItemFailure(t) ==
    \/ PrepareReturnsNone(t)
    \/ PublishFails(t)
    \/ IsMessagePostedRaises(t)
    \/ AddPostedMessageRaises(t)

\* C18 (as claimed): a failure in the processing of one item leaves the task
\* in its cycle, at the rest of the source's items and the later sources, or
\* at the normal end of the cycle.
C18_PerItemIsolation ==
    [][\A t \in TaskIds :
          ItemFailure(t) => tasks'[t].pc \in CyclePcs \cup {"sleep"}]_vars

--------------------------------------------------------------------------------
\* Candidate extractor (C19, C20)

\* a page of t.me/s/<channel>, or a parsed feed, is about to be processed
InitExtract ==
    /\ prog = "extract"
    /\ InitCommon /\ InitNoHistory /\ InitNoCall /\ InitNoNode
    /\ \/ \E page \in Pages : parse = [NoParse EXCEPT !.kind = "page", !.input = page]
       \/ \E feed \in Feeds : parse = [NoParse EXCEPT !.kind = "feed", !.input = feed]

\* fetch_messages returns for the page
FetchMessagesReturns ==
    /\ prog = "extract"
    /\ parse.kind = "page"
    /\ ~parse.done
    /\ parse' = [parse EXCEPT !.out = fetch_messages(parse.input), !.done = TRUE]
    /\ UNCHANGED <<prog, schedVars, translation_cache, call, prev, node, html>>

\* main.py, line 693: for entry in feed.entries[:3] -- the next entry is
\* processed, or the loop is through
ForEntry ==
    /\ prog = "extract"
    /\ parse.kind = "feed"
    /\ ~parse.done
    /\ LET entries == Take(parse.input, EntriesPerCycle)
       IN  IF Len(parse.out) < Len(entries)
           THEN parse' = [parse EXCEPT !.out = Append(@, entries[Len(parse.out) + 1])]
           ELSE parse' = [parse EXCEPT !.done = TRUE]
    /\ UNCHANGED <<prog, schedVars, translation_cache, call, prev, node, html>>

NextExtract == FetchMessagesReturns \/ ForEntry

SpecExtract == InitExtract /\ [][NextExtract]_vars

\* the elements of the page that have a numeric id
Numbered(page) == {i \in 1..Len(page) : extract_message_id(page[i]).some}

\* the message ids of a list of messages
IdsOf(messages) == {messages[i].message_id : i \in 1..Len(messages)}

\* C19 (as claimed): an element without a numeric id is not dropped -- from a
\* page that is within the limit, fetch_messages returns one candidate for
\* every element, numbered or not.
C19_NoIdNotRejected ==
    (parse.kind = "page" /\ parse.done /\ Len(parse.input) <= fetch_limit) =>
        Len(parse.out) = Len(parse.input)

\* C19 (amended): _extract_message_id yields None for an absent or empty
\* data-post and for a last segment that is not a number, and fetch_messages
\* drops such an element: every candidate returned carries the number of a
\* numbered element, and when the numbered elements are within the limit the
\* candidates are exactly these.
C19_NoIdDropped ==
    (parse.kind = "page" /\ parse.done) =>
        LET ids == {extract_message_id(parse.input[i]).id : i \in Numbered(parse.input)}
        IN  /\ IdsOf(parse.out) \subseteq ids
            /\ Len(parse.out) <= Cardinality(Numbered(parse.input))
            /\ Cardinality(Numbered(parse.input)) <= fetch_limit => IdsOf(parse.out) = ids
            /\ \A i \in 1..Len(parse.input) :
                  LET dp == parse.input[i].data_post
                  IN  extract_message_id(parse.input[i]).some <=>
                          /\ dp.present
                          /\ LastSegment(dp.value) \in {<<"1">>, <<"2">>, <<"3">>, <<"1", "2">>}

\* C19 witness: a page with a numbered element and one whose data-post ends
\* in a non-numeric segment; only the numbered one came out
C19_Witness ==
    /\ parse.kind = "page" /\ parse.done
    /\ parse.input = <<[data_post |-> DataPost(<<"c", "/", "x">>)],
                       [data_post |-> DataPost(<<"c", "/", "2">>)]>>
    /\ parse.out = <<ParsedMessage("chA", 2, TRUE, FALSE)>>

\* C20: fetch_messages returns at most fetch_limit candidates, in strictly
\* ascending order of message id, and they are the smallest ids of the page;
\* of a feed the first EntriesPerCycle entries are processed, in the feed's
\* order, and no others.
C20_OrderAndLimit ==
    /\ (parse.kind = "page" /\ parse.done) =>
          LET ids == {extract_message_id(parse.input[i]).id : i \in Numbered(parse.input)}
          IN  /\ Len(parse.out) <= fetch_limit
              /\ Len(parse.out) = IF Cardinality(ids) < fetch_limit
                                  THEN Cardinality(ids) ELSE fetch_limit
              /\ \A i \in 1..Len(parse.out) - 1 :
                    parse.out[i].message_id < parse.out[i + 1].message_id
              /\ \A x \in IdsOf(parse.out) : \A y \in ids \ IdsOf(parse.out) : x < y
    /\ parse.kind = "feed" =>
          /\ Len(parse.out) <= EntriesPerCycle
          /\ parse.out = SubSeq(parse.input, 1, Len(parse.out))
          /\ parse.done =>
                Len(parse.out) = IF Len(parse.input) < EntriesPerCycle
                                 THEN Len(parse.input) ELSE EntriesPerCycle

\* C20 witness: a page that shows the ids 3, 12 and 2 in this order gave the
\* candidates 2 and 3
C20_Witness ==
    /\ parse.kind = "page" /\ parse.done
    /\ parse.input = <<[data_post |-> DataPost(<<"c", "/", "3">>)],
                       [data_post |-> DataPost(<<"1", "2">>)],
                       [data_post |-> DataPost(<<"c", "/", "2">>)]>>
    /\ parse.out = <<ParsedMessage("chA", 2, TRUE, FALSE), ParsedMessage("chA", 3, TRUE, FALSE)>>

--------------------------------------------------------------------------------
\* Identity keys (C21)

\* faulty variant of is_message_posted: the query leaves the channel out
is_message_posted_any_channel(message_id, channel_username) ==
    \E c \in Range(source_channels) : <<message_id, c>> \in db

\* is_message_posted, lines 114-120: SELECT 1 ... WHERE message_id = ? AND
\* channel_username = ?
is_message_posted(message_id, channel_username) == <<message_id, channel_username>> \in db

\* prepare_news_message, lines 503-506: if link in self.posted_links
link_posted(link) == link \in posted_links.named

\* the message ids of the store model
MessageIds == 1..3

\* The identity store on its own: items are marked, one at a time, for the
\* source they came from; parse.input records the (source, id-or-link) pairs
\* that were marked.
InitStore ==
    /\ prog = "store"
    /\ InitCommon /\ InitNoHistory /\ InitNoCall /\ InitNoNode
    /\ \E kind \in {"posted_messages", "posted_links"} :
          parse = [NoParse EXCEPT !.kind = kind, !.input = {}]

\* add_posted_message, lines 123-129: INSERT OR IGNORE of the row
add_posted_message(message_id, channel_username) ==
    /\ prog = "store"
    /\ parse.kind = "posted_messages"
    /\ db' = db \cup {<<message_id, channel_username>>}
    /\ parse' = [parse EXCEPT !.input = @ \cup {<<channel_username, message_id>>}]
    /\ UNCHANGED <<prog, tasks, update_task, lock, stats, botVars, histVars,
                   translation_cache, call, prev, node, html>>

\* send_news_item, line 632: self.posted_links.add(news_item['link']), for an
\* entry of the feed of source
posted_links_add(source, link) ==
    /\ prog = "store"
    /\ parse.kind = "posted_links"
    /\ posted_links' = Add(posted_links, link)
    /\ parse' = [parse EXCEPT !.input = @ \cup {<<source, link>>}]
    /\ UNCHANGED <<prog, tasks, update_task, relayVars, running, app_running,
                   content_checks, disk, histVars, translation_cache, call, prev, node, html>>

NextStore ==
    \/ \E message_id \in MessageIds, c \in Range(source_channels) :
          add_posted_message(message_id, c)
    \/ \E source \in Range(NEWS_SOURCES), link \in Links : posted_links_add(source, link)

SpecStore == InitStore /\ [][NextStore]_vars

\* the identity-key check reports item x of source as seen
SeenFrom(source, x) ==
    IF parse.kind = "posted_messages" THEN is_message_posted(x, source) ELSE link_posted(x)

\* the sources and the ids (links) of the store model
StoreSources ==
    IF parse.kind = "posted_messages" THEN Range(source_channels) ELSE Range(NEWS_SOURCES)

StoreIds == IF parse.kind = "posted_messages" THEN MessageIds ELSE Links

--------------------------------------------------------------------------------
\* Pacing (C22)

\* C22: after a successful sink send the task goes on in its cycle only
\* through the pacing sleep (asyncio.sleep(5) after the insert in NewsRelay,
\* asyncio.sleep(25) in NewsBot): the send leads to the insert or to the
\* sleep, the insert to the sleep, and the next dedupe check or send of the
\* cycle is reached from the sleep only when it is over.
C22_Pacing ==
    [][\A t \in TaskIds :
          /\ SuccessfulSend(t) =>
                /\ tasks'[t].pc \in {"mark", "pace"}
                /\ tasks'[t].items = tasks[t].items
          /\ (tasks[t].pc = "mark" /\ tasks'[t].pc \in CyclePcs) =>
                /\ tasks'[t].pc \in {"mark", "pace"}
                /\ tasks'[t].items = tasks[t].items
          /\ (tasks[t].pc = "pace" /\ tasks'[t].pc \in CyclePcs \ {"pace"}) =>
                PacingSleep(t) \/ BotPacingSleep(t)]_vars

\* C22 witness: an item was sent and recorded, the task is in the pacing
\* sleep, and another candidate of the same source is waiting behind it
C22_Witness ==
    \E t \in TaskIds :
        /\ tasks[t].pc = "pace"
        /\ Len(tasks[t].items) > 1
        /\ lastPub.age = 0
        /\ Key(t) \in lastPub.item
        /\ Marked(Key(t))

--------------------------------------------------------------------------------
\* NewsBot: enrichment gate, image discovery and the shape of the sink call
\* (C23, C24, C26)

\* main.py, line 74
RESEARCH_AGENT_ENABLED == TRUE

\* main.py, line 83
RESEARCH_MIN_LENGTH == 800

\* two of the RESEARCH_KEYWORDS of lines 75-81: "AI" and "LLM"
RESEARCH_KEYWORDS == { <<"A", "I">>, <<"L", "L", "M">> }

\* str.lower() of a string
lower_str(text) == [i \in 1..Len(text) |-> lower(text[i])]

\* needle in haystack, for two strings
IsSubstring(needle, haystack) ==
    \E i \in 0..(Len(haystack) - Len(needle)) :
        \A j \in 1..Len(needle) : haystack[i + j] = needle[j]

\* A description: the characters it begins with, followed by padding more
\* characters none of which occurs in a keyword.
Description(body, padding) == [body |-> body, padding |-> padding]

\* len(description)
DescriptionLength(description) == Len(description.body) + description.padding

\* the titles and descriptions handed to should_research: descriptions of
\* their few characters alone and of one below, exactly and one above
\* RESEARCH_MIN_LENGTH characters
Titles == { <<>>, <<"A", "I">>, <<"h", "i">> }

Bodies == { <<>>, <<"a", "i">>, <<"L", "L", "M">>, <<"h", "i">>, <<"m", "a", "i", "l">>, <<"I">> }

Descriptions ==
    { Description(body, 0) : body \in Bodies } \cup
    { Description(body, n - Len(body)) :
        body \in Bodies,
        n \in {RESEARCH_MIN_LENGTH - 1, RESEARCH_MIN_LENGTH, RESEARCH_MIN_LENGTH + 1} }

\* f"{title} {description}".lower(), without the padding
Content(title, description) == lower_str(title \o <<" ">> \o description.body)

\* faulty variant of should_research: the content is not lower-cased
should_research_cased(title, description) ==
    IF ~RESEARCH_AGENT_ENABLED THEN FALSE
    ELSE IF DescriptionLength(description) < RESEARCH_MIN_LENGTH THEN FALSE
    ELSE \E keyword \in RESEARCH_KEYWORDS :
            IsSubstring(lower_str(keyword), title \o <<" ">> \o description.body)

\* ResearchAgent.should_research, lines 112-123
should_research(title, description) ==
    IF ~RESEARCH_AGENT_ENABLED THEN FALSE
    ELSE IF DescriptionLength(description) < RESEARCH_MIN_LENGTH THEN FALSE
    ELSE \E keyword \in RESEARCH_KEYWORDS :
            IsSubstring(lower_str(keyword), Content(title, description))

\* Optional[str]: None, or a string.  A URL is written as the sequence of its
\* parts, the first of which is "http" when the string starts with these four
\* characters.
NoUrl == [some |-> FALSE, url |-> <<>>]

Url(parts) == [some |-> TRUE, url |-> parts]

\* the values an image field or a page can give: "", "http://a/1.png",
\* "https://b/2.png", "/img/3.png" and "//cdn/4.png"
UrlValues ==
    { <<>>, <<"http", "://a/1.png">>, <<"http", "s://b/2.png">>, <<"/img/3.png">>, <<"//cdn/4.png">> }

\* if x: ... for an Optional[str]
Truthy(x) == x.some /\ x.url # <<>>

\* image_url.startswith('http')
startswith_http(x) == Len(x.url) > 0 /\ x.url[1] = "http"

\* media.get('type', '').startswith('image/')
IsImageType(type) == type \in {"image/jpeg", "image/png"}

\* next((item url for item in items if its type is an image type), None)
FirstImage(items) ==
    LET hits == {i \in 1..Len(items) : IsImageType(items[i].type)}
    IN  IF hits = {} THEN NoUrl
        ELSE items[CHOOSE i \in hits : \A j \in hits : i <= j].url

\* entry.get('media_content', []) and entry.get('enclosures', []): lists of
\* dicts with a type and a url (href)
MediaLists ==
    { <<>>,
      <<[type |-> "image/jpeg", url |-> Url(<<"http", "://a/1.png">>)]>>,
      <<[type |-> "image/png", url |-> Url(<<"/img/3.png">>)]>>,
      <<[type |-> "video/mp4", url |-> Url(<<"http", "s://b/2.png">>)],
        [type |-> "image/png", url |-> Url(<<"http", "s://b/2.png">>)]>> }

\* entry.get('image'): None, a dict with an href, or a string
ImageFields ==
    { [is |-> "none", href |-> NoUrl],
      [is |-> "dict", href |-> Url(<<"http", "://a/1.png">>)],
      [is |-> "dict", href |-> NoUrl],
      [is |-> "str", href |-> Url(<<"//cdn/4.png">>)],
      [is |-> "str", href |-> Url(<<"http", "s://b/2.png">>)] }

\* entry.get('media_thumbnail', {}): absent, a dict with a url, or the list
\* of dicts that feedparser builds for media:thumbnail
Thumbnails ==
    { [is |-> "absent", url |-> NoUrl],
      [is |-> "dict", url |-> Url(<<"http", "://a/1.png">>)],
      [is |-> "list", url |-> Url(<<"http", "://a/1.png">>)] }

\* what the GET of entry['link'] gives: an exception, a status other than 200,
\* or a page with its first og:image, twitter:image and img src (the regular
\* expressions match non-empty values only)
PageImages == {NoUrl} \cup {Url(u) : u \in UrlValues \ {<<>>}}

LinkedPages ==
    { [status |-> "raises", og |-> NoUrl, twitter |-> NoUrl, img |-> NoUrl],
      [status |-> "404", og |-> NoUrl, twitter |-> NoUrl, img |-> NoUrl] } \cup
    { [status |-> "200", og |-> og, twitter |-> tw, img |-> img] :
        og \in {NoUrl, Url(<<"http", "://a/1.png">>), Url(<<"/img/3.png">>)},
        tw \in {NoUrl, Url(<<"http", "s://b/2.png">>)},
        img \in {NoUrl, Url(<<"/img/3.png">>), Url(<<"http", "://a/1.png">>)} }

\* the feed entries handed to get_best_image, with the page their link leads to
ImageEntries ==
    [ media_content : MediaLists, enclosures : {MediaLists_i \in MediaLists : Len(MediaLists_i) <= 1},
      image : ImageFields, media_thumbnail : Thumbnails,
      link : BOOLEAN, page : LinkedPages ]

\* lines 446-454: the five lambdas, in order; the fifth raises AttributeError
\* for a list
FeedImage(entry, k) ==
    CASE k = 1 -> FirstImage(entry.media_content)
      [] k = 2 -> FirstImage(entry.enclosures)
      [] k = 3 -> IF entry.image.is = "dict" THEN entry.image.href ELSE NoUrl
      [] k = 4 -> IF entry.image.is = "str" THEN entry.image.href ELSE NoUrl
      [] k = 5 -> IF entry.media_thumbnail.is = "dict" THEN entry.media_thumbnail.url ELSE NoUrl

\* lines 462-481: the linked page's og:image, twitter:image, first img src
PageImage(entry) ==
    IF ~entry.link \/ entry.page.status # "200" THEN NoUrl
    ELSE IF entry.page.og.some THEN entry.page.og
    ELSE IF entry.page.twitter.some THEN entry.page.twitter
    ELSE entry.page.img

\* get_best_image, lines 441-486
get_best_image(entry) ==
    LET wins == {k \in 1..5 : Truthy(FeedImage(entry, k)) /\ startswith_http(FeedImage(entry, k))}
        first == CHOOSE k \in wins : \A j \in wins : k <= j
    IN  IF wins # {} /\ (first < 5 \/ entry.media_thumbnail.is # "list")
        THEN FeedImage(entry, first)
        ELSE IF entry.media_thumbnail.is = "list" THEN NoUrl
        ELSE PageImage(entry)

\* the news items handed to send_news_item: image_url as get_best_image can
\* return it, is_research = bool(research_report)
NewsItems ==
    [ image_url : {NoUrl} \cup {Url(u) : u \in UrlValues}, is_research : BOOLEAN ]

\* faulty variant of send_news_item_call: an enrichment report with an image
\* is sent as image and caption
send_news_item_call_image_first(news_item) ==
    IF Truthy(news_item.image_url)
    THEN [method |-> "send_media_group", media |-> news_item.image_url,
          disable_web_page_preview |-> FALSE]
    ELSE [method |-> "send_message", media |-> NoUrl,
          disable_web_page_preview |-> news_item.is_research]

\* send_news_item, lines 609-629: the bot call made for the item
\* (send_media_group has no preview parameter)
send_news_item_call(news_item) ==
    LET disable_preview == news_item.is_research
    IN  IF Truthy(news_item.image_url) /\ ~disable_preview
        THEN [method |-> "send_media_group", media |-> news_item.image_url,
              disable_web_page_preview |-> FALSE]
        ELSE [method |-> "send_message", media |-> NoUrl,
              disable_web_page_preview |-> disable_preview]


\* The item functions of NewsBot on their own: one call of should_research,
\* get_best_image or send_news_item; parse.input is the argument and parse.out
\* what the call returns (for send_news_item: the bot call it makes).
InitItem ==
    /\ prog = "item"
    /\ InitCommon /\ InitNoHistory /\ InitNoCall /\ InitNoNode
    /\ \/ \E title \in Titles, description \in Descriptions :
             parse = [NoParse EXCEPT !.kind = "should_research",
                                     !.input = [title |-> title, description |-> description]]
       \/ \E entry \in ImageEntries :
             parse = [NoParse EXCEPT !.kind = "get_best_image", !.input = entry]
       \/ \E news_item \in NewsItems :
             parse = [NoParse EXCEPT !.kind = "send_news_item", !.input = news_item]

\* should_research, lines 112-123
ShouldResearch ==
    /\ prog = "item"
    /\ parse.kind = "should_research"
    /\ ~parse.done
    /\ parse' = [parse EXCEPT
                    !.out = should_research(parse.input.title, parse.input.description),
                    !.done = TRUE]
    /\ UNCHANGED <<prog, schedVars, translation_cache, call, prev, node, html>>

\* get_best_image, lines 441-486
GetBestImage ==
    /\ prog = "item"
    /\ parse.kind = "get_best_image"
    /\ ~parse.done
    /\ parse' = [parse EXCEPT !.out = get_best_image(parse.input), !.done = TRUE]
    /\ UNCHANGED <<prog, schedVars, translation_cache, call, prev, node, html>>

\* send_news_item, lines 609-629
SendNewsItemCall ==
    /\ prog = "item"
    /\ parse.kind = "send_news_item"
    /\ ~parse.done
    /\ parse' = [parse EXCEPT !.out = send_news_item_call(parse.input), !.done = TRUE]
    /\ UNCHANGED <<prog, schedVars, translation_cache, call, prev, node, html>>

NextItem == ShouldResearch \/ GetBestImage \/ SendNewsItemCall

SpecItem == InitItem /\ [][NextItem]_vars

Returned(kind) == prog = "item" /\ parse.kind = kind /\ parse.done

\* C23: an item goes out as image and caption exactly when it has an image
\* URL and is not an enrichment report; otherwise it goes out as text, with
\* the link preview suppressed exactly for an enrichment report.
C23_SinkCallShape ==
    Returned("send_news_item") =>
        /\ parse.out.method \in {"send_media_group", "send_message"}
        /\ parse.out.method = "send_media_group"
              <=> (Truthy(parse.input.image_url) /\ ~parse.input.is_research)
        /\ parse.out.method = "send_media_group" => parse.out.media = parse.input.image_url
        /\ parse.out.method = "send_message"
              => parse.out.disable_web_page_preview = parse.input.is_research

\* C23 witness: an enrichment report that has an image URL went out as text
\* with the preview suppressed
C23_Witness ==
    /\ Returned("send_news_item")
    /\ Truthy(parse.input.image_url)
    /\ parse.input.is_research
    /\ parse.out.method = "send_message"
    /\ parse.out.disable_web_page_preview

\* the lower-cased "title description" holds a lower-cased keyword
HoldsKeyword(title, description) ==
    \E keyword \in RESEARCH_KEYWORDS :
        IsSubstring(lower_str(keyword), lower_str(title \o <<" ">> \o description.body))

\* C24 (as claimed): should_research returns true only if the description is
\* longer than RESEARCH_MIN_LENGTH and the lower-cased title and description
\* hold a keyword.
C24_OnlyAboveThreshold ==
    (Returned("should_research") /\ parse.out) =>
        /\ DescriptionLength(parse.input.description) > RESEARCH_MIN_LENGTH
        /\ HoldsKeyword(parse.input.title, parse.input.description)

\* C24 (amended): should_research returns true exactly when the description
\* has at least RESEARCH_MIN_LENGTH characters and the lower-cased title and
\* description hold a keyword; a description below the threshold never
\* triggers enrichment.
C24_FromThreshold ==
    Returned("should_research") =>
        (parse.out <=>
            /\ DescriptionLength(parse.input.description) >= RESEARCH_MIN_LENGTH
            /\ HoldsKeyword(parse.input.title, parse.input.description))

\* C24 witness: a description of exactly RESEARCH_MIN_LENGTH characters under
\* the title "AI" triggered enrichment
C24_Witness ==
    /\ Returned("should_research")
    /\ DescriptionLength(parse.input.description) = RESEARCH_MIN_LENGTH
    /\ parse.input.title = <<"A", "I">>
    /\ parse.out

\* C26: get_best_image returns None or a URL that begins with "http".
C26_NoneOrAbsoluteUrl ==
    Returned("get_best_image") => (parse.out = NoUrl \/ startswith_http(parse.out))


\* the translate_text call in progress missed the cache
CacheMiss == call.pc # "idle" /\ call.via \notin {"empty", "russian", "cache"}

\* C25: on a cache miss translate_text calls DeepLX at most twice and MyMemory
\* at most once, and MyMemory only after both DeepLX attempts failed; every
\* such call returns, and when no answer passes is_russian it returns the
\* original text and leaves no entry for it in translation_cache.
C25_FallbackOrder ==
    (prog = "translate" /\ CacheMiss) =>
        LET key == cache_key(call.text, call.target_lang) IN
        /\ call.fails <= DeepLXAttempts
        /\ call.calls <= DeepLXAttempts + 1
        /\ ~call.mm_called => call.calls <= DeepLXAttempts
        /\ (call.mm_called \/ call.pc = "mymemory") => call.fails = DeepLXAttempts
        /\ call.pc = "done" => call.via \in {"deeplx", "mymemory", "original"}
        /\ (call.pc = "done" /\ call.via = "original") =>
              /\ call.result = call.text
              /\ call.mm_called
              /\ ~is_russian(call.mm)
              /\ ~InCache(translation_cache, key)
        /\ (call.pc = "done" /\ call.via # "original") =>
              /\ is_russian(call.result)
              /\ InCache(translation_cache, key)

\* C25 witness: two failed DeepLX attempts and a MyMemory answer that is not
\* Russian; the call returned the original text after three provider calls
C25_Witness ==
    /\ prog = "translate"
    /\ call.pc = "done"
    /\ call.via = "original"
    /\ call.calls = DeepLXAttempts + 1
    /\ call.mm = <<"h", "i">>
    /\ call.result = call.text
    /\ call.text # <<>>


-----------------------------------------------------------------------------
(* bot.py: stats["errors"] and status_command (C27) *)

\* errors[-5:] in status_command
ErrorsShown == 5

\* bound on the failed cycles of the error-list model
MaxFailedCycles == 6

\* str(exc) of the exceptions that escape a cycle
ErrorTexts == {"timeout", "database is locked"}

\* errors[-n:]
LastN(errors, n) ==
    IF Len(errors) <= n THEN errors ELSE SubSeq(errors, Len(errors) - n + 1, Len(errors))

\* NewsRelay.__init__, lines 329-334: parse.input is stats["errors"], parse.out
\* the error lines of the last /status reply
InitStatus ==
    /\ prog = "status"
    /\ InitCommon /\ InitNoHistory /\ InitNoCall /\ InitNoNode
    /\ parse = [NoParse EXCEPT !.kind = "stats"]

\* _runner, lines 356-358: self.stats["errors"].append(str(exc))
RunnerCatches(exc) ==
    /\ prog = "status"
    /\ Len(parse.input) < MaxFailedCycles
    /\ parse' = [parse EXCEPT !.input = Append(@, exc)]
    /\ UNCHANGED <<prog, schedVars, translation_cache, call, prev, node, html>>

\* status_command, lines 474-476
status_command ==
    /\ prog = "status"
    /\ parse' = [parse EXCEPT !.out = LastN(parse.input, ErrorsShown), !.done = TRUE]
    /\ UNCHANGED <<prog, schedVars, translation_cache, call, prev, node, html>>

NextStatus ==
    \/ \E exc \in ErrorTexts : RunnerCatches(exc)
    \/ status_command

SpecStatus == InitStatus /\ [][NextStatus]_vars

\* C27: stats["errors"] never holds more than the last ErrorsShown error
\* strings.
C27_BoundedErrorList == prog = "status" => Len(parse.input) <= ErrorsShown


--------------------------------------------------------------------------------
\* NewsBot: the state file (C28, C29, C30)

\* send_news_item returns True although the write of save_state failed
SendNewsItemWriteFails(t) == SendNewsItem(t, "open_failed") \/ SendNewsItem(t, "dump_failed")

\* C28: when the write of save_state fails, send_news_item still ends with
\* success, the task goes on to the pacing sleep of its cycle, and the link
\* and the content hash of the item just sent are in the in-memory sets.
C28_WriteFailureNotFatal ==
    [][\A t \in TaskIds :
          SendNewsItemWriteFails(t) =>
              /\ tasks'[t].pc = "pace"
              /\ Current(t) \in sentOk'
              /\ Current(t) \in posted_links'.named
              /\ content_hash(Current(t)) \in content_checks'.named]_vars

\* C29: every step that changes the state file leaves the complete new
\* snapshot (the two sets as they are in memory after the step) in it.
C29_AtomicSnapshotWrite ==
    [][(prog = "bot" /\ disk' # disk) =>
          disk' = Snapshot(posted_links', content_checks')]_vars


\* What load_state can find at STATE_FILE besides the files save_state
\* leaves: a JSON document that is not an object, or an object whose
\* posted_links or content_checks value set() does not accept (a number, a
\* list holding a list).  A file carries the values that can be read.
BadFileKinds == {"not_a_dict", "bad_posted_links", "bad_content_checks"}

StateFiles ==
    {NoFile, Corrupt, [Corrupt EXCEPT !.kind = "not_a_dict"]} \cup
    { [kind |-> kind,
       posted_links |-> IdSet(IF kind = "bad_posted_links" THEN {} ELSE pl,
                              IF kind = "bad_posted_links" THEN 0 ELSE n),
       content_checks |-> IdSet(IF kind = "bad_content_checks" THEN {} ELSE cc,
                                IF kind = "bad_content_checks" THEN 0 ELSE n)] :
        kind \in {"json", "bad_posted_links", "bad_content_checks"},
        pl \in SUBSET Links, cc \in SUBSET Hashes, n \in PriorFill }

\* load_state, lines 217-228: the two sets after the call.  Line 223 assigns
\* posted_links before line 224 evaluates set(data.get('content_checks', []));
\* any exception ends the call with the sets as they are by then.
load_state(file) ==
    CASE file.kind = "json" -> Snapshot(file.posted_links, file.content_checks)
      [] file.kind = "bad_content_checks" -> Snapshot(file.posted_links, IdSet({}, 0))
      [] OTHER -> Snapshot(IdSet({}, 0), IdSet({}, 0))

\* NewsBot.__init__, lines 190-191: both sets empty, a file on disk
InitLoad ==
    /\ prog = "load"
    /\ InitCommon /\ InitNoCall /\ InitNoNode
    /\ disk \in StateFiles
    /\ posted_links = IdSet({}, 0)
    /\ content_checks = IdSet({}, 0)
    /\ parse = [NoParse EXCEPT !.kind = "load_state"]

\* NewsBot.__init__, line 201: self.load_state(); the call returns
LoadState ==
    /\ prog = "load"
    /\ ~parse.done
    /\ posted_links' = load_state(disk).posted_links
    /\ content_checks' = load_state(disk).content_checks
    /\ parse' = [parse EXCEPT !.done = TRUE]
    /\ UNCHANGED <<prog, tasks, update_task, relayVars, running, app_running, disk,
                   histVars, translation_cache, call, prev, node, html>>

NextLoad == LoadState

SpecLoad == InitLoad /\ [][NextLoad]_vars

\* C30: load_state returns, and when the file is absent or is not a
\* well-formed snapshot, both sets are empty after it.
C30_LoadIsTotal ==
    (prog = "load" /\ parse.done /\ disk.kind # "json") =>
        /\ posted_links = IdSet({}, 0)
        /\ content_checks = IdSet({}, 0)


--------------------------------------------------------------------------------
\* NewsRelay: the counters of stats (C31)

\* C31: within a process, total_messages and last_messages go up by one
\* together in the step that marks a published message and in no other step;
\* the start of a cycle sets last_messages to 0 and leaves total_messages; no
\* other step of the process (a skipped message, a failed send, a failed
\* insert, a failed cycle) changes either counter; and last_messages never
\* exceeds total_messages.
C31_Counters ==
    [][(prog = "relay" /\ ~RelayRestart) =>
          /\ stats.last_messages <= stats.total_messages
          /\ stats'.last_messages <= stats'.total_messages
          /\ stats'.total_messages >= stats.total_messages
          /\ IF \E t \in TaskIds : AddPostedMessage(t)
             THEN /\ stats'.total_messages = stats.total_messages + 1
                  /\ stats'.last_messages = stats.last_messages + 1
                  /\ \E t \in TaskIds : tasks[t].pc = "mark" /\ RowOf(Current(t)) \in db'
             ELSE IF \E t \in TaskIds : ProcessCycleBegin(t)
             THEN /\ stats'.total_messages = stats.total_messages
                  /\ stats'.last_messages = 0
             ELSE /\ stats'.total_messages = stats.total_messages
                  /\ stats'.last_messages = stats.last_messages]_vars

\* C31 witness: a cycle that published one message, in a process whose
\* earlier cycle published one as well
C31_Witness ==
    /\ prog = "relay"
    /\ stats.last_messages = 1
    /\ stats.total_messages = 2
    /\ \E t \in TaskIds : tasks[t].pc = "pace"


--------------------------------------------------------------------------------
\* NewsBot: the rollback of the failed send (C32)

\* C32: a send_news_item call whose send fails leaves posted_links and
\* content_checks exactly as they were when it was called; in particular its
\* content_checks.discard removes no hash that an earlier publish added.
C32_RollbackRemovesNothing ==
    [][\A t \in TaskIds :
          SendNewsItemFails(t) =>
              /\ posted_links' = posted_links
              /\ content_checks' = content_checks
              /\ content_hash(Current(t)) \notin content_checks.named]_vars

\* C32 witness: a send has just failed in a process whose sets hold the link
\* and the hash of an earlier publish
C32_Witness ==
    /\ prog = "bot"
    /\ lastFail.item # {}
    /\ lastFail.age = 0
    /\ posted_links.named # {}
    /\ content_checks.named # {}
    /\ \E t \in TaskIds : tasks[t].pc = "pace" /\ Current(t) \in lastFail.item


--------------------------------------------------------------------------------
\* NewsBot: the description handed to the enrichment gate (C33)

\* clean_content(entry.get('description', ''), 500), line 511
DescriptionMaxLength == 500

\* fetch_article_text: ' '.join(cleaned_content.split())[:500], line 329
ArticleExcerptLength == 500

\* text[:n]
Truncate(description, n) ==
    IF DescriptionLength(description) <= n THEN description
    ELSE IF Len(description.body) >= n THEN Description(SubSeq(description.body, 1, n), 0)
    ELSE Description(description.body, n - Len(description.body))

\* str.strip() of a text cut by Truncate: the cut leaves a space at the end
\* (space_at_cut) or not
Strip(description, space_at_cut) ==
    IF space_at_cut /\ description.padding > 0
    THEN Description(description.body, description.padding - 1)
    ELSE description

\* faulty variant of clean_content: the text is not cut to max_length
clean_content_uncut(text, max_length, space_at_cut) == text

\* clean_content, lines 417-439, of a text without tags and marks:
\* text[:max_length].strip()
clean_content(text, max_length, space_at_cut) ==
    IF DescriptionLength(text) <= max_length THEN text
    ELSE Strip(Truncate(text, max_length), space_at_cut)

\* Optional[str] of fetch_article_text
NoArticle == [some |-> FALSE, text |-> Description(<<>>, 0)]

\* fetch_article_text, lines 317-334: the first 500 characters of the page's
\* text, None when the page cannot be fetched
fetch_article_text(page) ==
    IF page.some THEN [some |-> TRUE, text |-> Truncate(page.text, ArticleExcerptLength)]
    ELSE NoArticle

\* the descriptions of feed entries: a short text alone, or followed by filler
\* up to a length around the limits of the code
RawLengths == {0, 499, 500, 501, 799, 800, 801, 2000}

RawDescriptions ==
    { Description(body, IF n > Len(body) THEN n - Len(body) ELSE 0) :
        body \in Bodies, n \in RawLengths }

\* the pages behind entry['link']: not fetched, or their text
ArticlePages ==
    {NoArticle} \cup
    { [some |-> TRUE, text |-> Description(body, n)] :
        body \in {<<>>, <<"a", "i">>}, n \in {0, 500, 2000} }

\* what research_topic returns: a report or an error text, or ''
Reports == {"", "report"}

\* the entries handed to prepare_news_message: a title, a link that is not
\* posted yet, a description
InitPrepare ==
    /\ prog = "prepare"
    /\ InitCommon /\ InitNoHistory /\ InitNoCall /\ InitNoNode
    /\ \E title \in Titles \ {<<>>}, description \in RawDescriptions,
          page \in ArticlePages, space_at_cut \in BOOLEAN :
          parse = [NoParse EXCEPT
                      !.kind = "description",
                      !.input = [title |-> title, description |-> description,
                                 page |-> page, space_at_cut |-> space_at_cut],
                      !.out = [original_description |-> Description(<<>>, 0),
                               research_called |-> FALSE, is_research |-> FALSE,
                               returns |-> "nothing"]]

\* prepare_news_message, lines 510-518: original_description
OriginalDescription ==
    /\ prog = "prepare"
    /\ parse.kind = "description"
    /\ LET cleaned == clean_content(parse.input.description, DescriptionMaxLength,
                                    parse.input.space_at_cut)
           article_text == fetch_article_text(parse.input.page)
       IN  IF DescriptionLength(cleaned) > 0
           THEN parse' = [parse EXCEPT !.kind = "research",
                                       !.out.original_description = cleaned]
           ELSE IF article_text.some /\ DescriptionLength(article_text.text) > 0
           THEN parse' = [parse EXCEPT !.kind = "research",
                                       !.out.original_description = article_text.text]
           ELSE parse' = [parse EXCEPT !.kind = "returned", !.done = TRUE,
                                       !.out.returns = "None"]
    /\ UNCHANGED <<prog, schedVars, translation_cache, call, prev, node, html>>

\* prepare_news_message, lines 529-538 and 593-599: the gate, research_topic,
\* and is_research = bool(research_report) of the returned item
Research(report) ==
    /\ prog = "prepare"
    /\ parse.kind = "research"
    /\ LET called == should_research(parse.input.title, parse.out.original_description)
       IN  parse' = [parse EXCEPT !.kind = "returned", !.done = TRUE,
                                  !.out.research_called = called,
                                  !.out.is_research = called /\ report # "",
                                  !.out.returns = "news_item"]
    /\ UNCHANGED <<prog, schedVars, translation_cache, call, prev, node, html>>

NextPrepare ==
    \/ OriginalDescription
    \/ \E report \in Reports : Research(report)

SpecPrepare == InitPrepare /\ [][NextPrepare]_vars

--------------------------------------------------------------------------------
\* NewsRelay: messages without text (C34)

\* task t is at a message without text
AtTextless(t) == tasks[t].pc \in CyclePcs /\ tasks[t].items # <<>> /\ ~Current(t).text

\* C34: for a message without text no text send is made; when it has no
\* media, or its send_photo fails, _publish returns False, the message is not
\* marked and the loop goes on; and whenever a later cycle finds it on the
\* page and unmarked, the dedupe check lets it through: it is sent again
\* with send_photo when it has media, and skipped unmarked when it has none.
C34_TextlessNeverMarked ==
    [][prog = "relay" =>
          /\ \A m \in Messages : (~m.text /\ ~m.media) => RowOf(m) \notin db'
          /\ \A t \in TaskIds :
                /\ (tasks'[t].pc = "text" /\ tasks'[t].items # <<>>) => tasks'[t].items[1].text
                /\ (AtTextless(t) /\ SendPhotoFails(t)) =>
                      /\ db' = db
                      /\ sentOk' = sentOk
                      /\ tasks'[t] = AfterMessage(tasks[t])
                /\ (AtTextless(t) /\ IsMessagePosted(t) /\ RowOf(Current(t)) \notin db) =>
                      /\ db' = db
                      /\ IF Current(t).media
                         THEN tasks'[t].pc = "photo" /\ tasks'[t].items = tasks[t].items
                         ELSE tasks'[t] = AfterMessage(tasks[t])]_vars

\* C34 witness: in the cycle after the one in which its send_photo failed, a
\* message without text is handed to send_photo again
C34_Witness ==
    /\ prog = "relay"
    /\ lastFail.age = 1
    /\ \E t \in TaskIds :
          /\ tasks[t].pc = "photo"
          /\ ~Current(t).text
          /\ RowOf(Current(t)) \in lastFail.item
          /\ RowOf(Current(t)) \notin db

====
